---- MODULE Spec2Model ----
(***************************************************************************)
(* cmdis: ARMv7-M Thumb disassembler and functional simulator.             *)
(*                                                                         *)
(* Representation.  A Python int that the code keeps in a bitstring        *)
(* (_value, already masked to _width bits) is written in binary, least     *)
(* significant bit first: a bitstring of width w is a sequence of w bits   *)
(* and b[i+1] is bit position i.  A register of the mock CPU is a 32-bit   *)
(* word in the same form (TLC's integers stop at 2^31 - 1).  A Python int  *)
(* that may be negative or wider than the operand (unsigned_sum,           *)
(* signed_sum) is a two's complement bit sequence long enough that no      *)
(* carry is lost.                                                          *)
(***************************************************************************)
EXTENDS Integers, Sequences, FiniteSets, TLC

VARIABLES
    regs,    \* MockCpuModelDelegate._regs : register index -> 32-bit word
    mem,     \* MockCpuModelDelegate._mem  : sequence of MemBuffer(start, end, data)
    instr,   \* the Instruction object last returned by decode
    hist,    \* the calls made so far, each with the CPU state before and after
    inp,     \* arguments drawn for the helper under test
    call     \* the last helper call and what it returned

vars == <<regs, mem, instr, hist, inp, call>>

None == "None"

\* ------------------------------------------------------------------------
\* Bounds of the model.
\* ------------------------------------------------------------------------
\* Widest operand drawn for a helper call.
MaxWidth == 3

\* Most calls (decode, execute, register write) made on one CPU.
MaxSteps == 5

\* ------------------------------------------------------------------------
\* Binary arithmetic on bit sequences (Python int operators).
\* ------------------------------------------------------------------------
Bit == {0, 1}

Max(a, b) == IF a >= b THEN a ELSE b

\* The number a bit sequence denotes (only applied to values below 2^31).
RECURSIVE ToNat(_)
ToNat(b) == IF b = <<>> THEN 0 ELSE b[1] + 2 * ToNat(Tail(b))

\* The n low bits of integer k in two's complement: k & ((1 << n) - 1).
RECURSIVE IntBits(_, _)
IntBits(k, n) == IF n = 0 THEN <<>> ELSE <<k % 2>> \o IntBits(k \div 2, n - 1)

\* All bit sequences of length n.
BitSeqs(n) == [1..n -> Bit]

\* A function over 1..n as the tuple of its values.
Tuple(f) == f \o <<>>

\* v & ((1 << n) - 1) for a non-negative v: the n low bits, zero filled.
MaskTo(v, n) == Tuple([i \in 1..n |-> IF i <= Len(v) THEN v[i] ELSE 0])

\* Carry into position i (1-based) of a + b + cin.
RECURSIVE CarryIn(_, _, _, _)
CarryIn(a, b, cin, i) ==
    IF i = 1 THEN cin
    ELSE LET c == CarryIn(a, b, cin, i - 1)
         IN  IF a[i-1] + b[i-1] + c >= 2 THEN 1 ELSE 0

\* a + b + cin on two sequences of one length n, kept to n bits.
AddBits(a, b, cin) ==
    Tuple([i \in 1..Len(a) |-> (a[i] + b[i] + CarryIn(a, b, cin, i)) % 2])

\* a < b, a <= b as unsigned numbers of one length.
RECURSIVE LessBits(_, _)
LessBits(a, b) ==
    IF a = <<>> THEN FALSE
    ELSE LET n == Len(a)
         IN  IF a[n] # b[n] THEN a[n] < b[n]
             ELSE LessBits(SubSeq(a, 1, n - 1), SubSeq(b, 1, n - 1))

LeqBits(a, b) == a = b \/ LessBits(a, b)

\* ------------------------------------------------------------------------
\* bitstring
\* ------------------------------------------------------------------------
\* bitstring(val, width): val & mask.
bitstring(val, width) == MaskTo(val, width)

zeros(count) == Tuple([i \in 1..count |-> 0])

ones(count) == Tuple([i \in 1..count |-> 1])

bit0 == <<0>>

bit1 == <<1>>

\* get_bit(bitpos), for 0 <= bitpos.
get_bit(b, bitpos) == IF bitpos < Len(b) THEN <<b[bitpos + 1]>> ELSE <<0>>

\* unsigned, zero-filled to n bits as a Python int.
unsigned(b, n) == MaskTo(b, n)

\* invert(): self.set(bitstring(self._mask & ~self._value, self._width)); the
\* receiver itself is changed and returned.
invert(b) == Tuple([i \in 1..Len(b) |-> 1 - b[i]])

\* inverted: a new bitstring, the receiver is left alone.
inverted(b) == Tuple([i \in 1..Len(b) |-> 1 - b[i]])

\* The signed property.  Returns the Python int (n-bit two's complement) and
\* the receiver as the call leaves it: with the top bit set the code calls
\* self.invert(), which changes the receiver in place.
signed(b, n) ==
    LET w  == Len(b)
        w1 == w - 1
        s  == IF w >= 1 THEN b[w] ELSE 0
    IN  IF w < 2 THEN [v |-> zeros(n), self |-> b]
        ELSE IF s = 1
             THEN \* v = -(self.invert().value & ((1 << w1) - 1)) - 1
                  LET inv == invert(b)
                      low == MaskTo(SubSeq(inv, 1, w1), n)
                  IN  [v |-> Tuple([i \in 1..n |-> 1 - low[i]]), self |-> inv]
             ELSE [v |-> MaskTo(SubSeq(b, 1, w1), n), self |-> b]

is_zero(b) == \A i \in 1..Len(b) : b[i] = 0

is_zero_bit(b) == IF is_zero(b) THEN <<1>> ELSE <<0>>

RECURSIVE bit_count(_)
bit_count(b) == IF b = <<>> THEN 0 ELSE b[1] + bit_count(Tail(b))

\* a % b: concatenation, the receiver as the high-order bits.
concat(a, b) == b \o a

\* b[lo:hi] for 0 <= lo <= hi (slice.indices clips hi to the width).
slice(b, lo, hi) ==
    LET h == IF hi > Len(b) THEN Len(b) ELSE hi
    IN  IF lo >= h THEN <<>> ELSE SubSeq(b, lo + 1, h)

\* b[key] = value for 0 <= key < width (single bit assignment).
set_bit(b, key, value) == [b EXCEPT ![key + 1] = value % 2]

\* sign_extend / zero_extend: "if width < self._width: raise ValueError".
extend_error(b, width) == IF width < Len(b) THEN "ValueError" ELSE None

\* sign_extend(width) for width >= the current width.
sign_extend(b, width) ==
    IF width = Len(b) THEN b
    ELSE LET s == b[Len(b)]
             d == width - Len(b)
         IN  concat(Tuple([i \in 1..d |-> s]), b)

\* zero_extend(width) for width >= the current width.
zero_extend(b, width) ==
    IF width = Len(b) THEN b ELSE bitstring(b, width)

\* __iadd__ / __add__ with a bitstring operand: (value + other) & mask.
add(b, other) ==
    LET n == Max(Len(b), Len(other)) + 1
    IN  bitstring(AddBits(MaskTo(b, n), MaskTo(other, n), 0), Len(b))

\* __iadd__ / __add__ with a Python int operand k (may be negative).
add_int(b, k) ==
    LET n == Len(b) + 1
    IN  bitstring(AddBits(MaskTo(b, n), IntBits(k, n), 0), Len(b))

\* __isub__ / __sub__ with a bitstring operand: (value - other) & mask.
sub(b, other) ==
    LET n == Max(Len(b), Len(other)) + 1
        o == MaskTo(other, n)
    IN  bitstring(AddBits(MaskTo(b, n), Tuple([i \in 1..n |-> 1 - o[i]]), 1), Len(b))

\* __or__ with the Python int 1.
or_int1(b) == IF Len(b) = 0 THEN b ELSE [b EXCEPT ![1] = 1]

\* __lshift__ / __rshift__ with a Python int: bitstring(value << k, w).
lshift(b, k) == Tuple([i \in 1..Len(b) |-> IF i > k THEN b[i - k] ELSE 0])

rshift(b, k) == Tuple([i \in 1..Len(b) |-> IF i + k <= Len(b) THEN b[i + k] ELSE 0])

\* __or__ with a bitstring operand: the wider of the two widths.
or(a, b) ==
    LET n == Max(Len(a), Len(b))
    IN  Tuple([i \in 1..n |-> IF MaskTo(a, n)[i] + MaskTo(b, n)[i] >= 1 THEN 1 ELSE 0])

\* __and__ / __xor__ of two values of one width.
and(a, b) == Tuple([i \in 1..Len(a) |-> a[i] * b[i]])

xor(a, b) == Tuple([i \in 1..Len(a) |-> (a[i] + b[i]) % 2])

\* bitstring('1101'): the characters of the string, most significant first.
bstr(s) == Tuple([i \in 1..Len(s) |-> s[Len(s) + 1 - i]])

\* ------------------------------------------------------------------------
\* helpers.py
\* ------------------------------------------------------------------------
\* AddWithCarry(x, y, carry_in).  result, carry_out and overflow are what the
\* caller receives; x and y are the operand objects as the call leaves them.
\* The last lines, from result = bitstring(unsigned_sum, x.width) on; sr is
\* result.signed read for the overflow test.
AddWithCarry_return(unsigned_sum, signed_sum, result, sr, x, y, n) ==
    [result |-> sr.self,
     carry_out |-> IF unsigned(result, n) = unsigned_sum THEN bit0 ELSE bit1,
     overflow |-> IF sr.v = signed_sum THEN bit0 ELSE bit1,
     x |-> x, y |-> y]

\* The two sums, with x.signed (sx) and y.signed (sy) read.
AddWithCarry_sums(unsigned_sum, sx, sy, c, w) ==
    AddWithCarry_return(unsigned_sum, AddBits(sx.v, sy.v, c), bitstring(unsigned_sum, w),
                        signed(bitstring(unsigned_sum, w), w + 2), sx.self, sy.self, w + 2)

AddWithCarry(x, y, carry_in) ==
    AddWithCarry_sums(AddBits(unsigned(x, Len(x) + 2), unsigned(y, Len(x) + 2), carry_in[1]),
                      signed(x, Len(x) + 2), signed(y, Len(x) + 2), carry_in[1], Len(x))

SRType ==
    [SRType_None |-> 0, SRType_LSL |-> 1, SRType_LSR |-> 2,
     SRType_ASR |-> 3, SRType_ROR |-> 4, SRType_RRX |-> 5]

LSL_C(x, shift) ==
    LET ext_x == concat(x, zeros(shift))
    IN  [result |-> slice(ext_x, 0, Len(x)), carry_out |-> get_bit(ext_x, Len(x))]

LSR_C(x, shift) ==
    LET ext_x == zero_extend(x, shift + Len(x))
    IN  [result |-> slice(ext_x, shift, shift + Len(x)), carry_out |-> get_bit(ext_x, shift - 1)]

\* ASR_C with the carry taken from ext_x[shift]
ASR_C_carry_above(x, shift) ==
    LET ext_x == sign_extend(x, shift + Len(x))
    IN  [result |-> slice(ext_x, shift, shift + Len(x)), carry_out |-> get_bit(ext_x, shift)]

ASR_C(x, shift) ==
    LET ext_x == sign_extend(x, shift + Len(x))
    IN  [result |-> slice(ext_x, shift, shift + Len(x)), carry_out |-> get_bit(ext_x, shift - 1)]

ROR_C(x, shift) ==
    LET m      == shift % Len(x)
        result == or(rshift(x, m), lshift(x, Len(x) - m))
    IN  [result |-> result, carry_out |-> get_bit(result, Len(x) - 1)]

RRX_C(x, carry_in) ==
    [result |-> concat(carry_in, slice(x, 1, Len(x))), carry_out |-> get_bit(x, 0)]

\* ThumbExpandImm_C(imm12, carry_in)
ThumbExpandImm_C(imm12, carry_in) ==
    IF slice(imm12, 10, 12) = <<0, 0>>
    THEN LET imm12_8 == slice(imm12, 8, 10)
             imm12_0 == slice(imm12, 0, 8)
             zero8   == zeros(8)
         IN  [result |->
                 CASE imm12_8 = <<0, 0>> -> zero_extend(imm12_0, 32)
                   [] imm12_8 = <<1, 0>> ->
                        concat(concat(concat(zero8, imm12_0), zero8), imm12_0)
                   [] imm12_8 = <<0, 1>> ->
                        concat(concat(concat(imm12_0, zero8), imm12_0), zero8)
                   [] imm12_8 = <<1, 1>> ->
                        concat(concat(concat(imm12_0, imm12_0), imm12_0), imm12_0),
              carry_out |-> carry_in]
    ELSE ROR_C(zero_extend(concat(bit1, slice(imm12, 0, 7)), 32),
               ToNat(slice(imm12, 7, 12)))

ThumbExpandImm(imm12) == ThumbExpandImm_C(imm12, bit0).result

\* Shift_C(value, type, amount, carry_in); exc is the exception it ends in:
\* the assert, or result never bound when type is SRType_None and amount # 0.
Shift_C(value, type, amount, carry_in) ==
    LET none == [result |-> value, carry_out |-> carry_in]
        r == IF amount = 0 THEN none
             ELSE IF type = SRType.SRType_LSL THEN LSL_C(value, amount)
             ELSE IF type = SRType.SRType_LSR THEN LSR_C(value, amount)
             ELSE IF type = SRType.SRType_ASR THEN ASR_C(value, amount)
             ELSE IF type = SRType.SRType_ROR THEN ROR_C(value, amount)
             ELSE IF type = SRType.SRType_RRX THEN RRX_C(value, carry_in)
             ELSE none
    IN  IF type = SRType.SRType_RRX /\ amount # 1
            THEN [result |-> value, carry_out |-> carry_in, exc |-> "AssertionError"]
        ELSE IF amount # 0 /\ type = SRType.SRType_None
            THEN [result |-> value, carry_out |-> carry_in, exc |-> "UnboundLocalError"]
        ELSE [result |-> r.result, carry_out |-> r.carry_out, exc |-> None]

Shift(value, type, amount, carry_in) ==
    LET r == Shift_C(value, type, amount, carry_in)
    IN  [result |-> r.result, exc |-> r.exc]

\* ------------------------------------------------------------------------
\* utilities.py
\* ------------------------------------------------------------------------
\* hamming_weight(v) of a mask held as a bit sequence.
hamming_weight(v) == bit_count(v)

\* bytes_to_le16(data, offset): data[offset] | (data[offset+1] << 8), as 16 bits.
bytes_to_le16(data, offset) ==
    IntBits(data[offset + 1], 8) \o IntBits(data[offset + 2], 8)

\* bytes_to_le32(data, offset), as 32 bits.
bytes_to_le32(data, offset) ==
    IntBits(data[offset + 1], 8) \o IntBits(data[offset + 2], 8)
        \o IntBits(data[offset + 3], 8) \o IntBits(data[offset + 4], 8)

\* le16_to_bytes(value): (value >> (i * 8)) & 0xff for i in range(2).
le16_to_bytes(value) ==
    Tuple([i \in 1..2 |-> ToNat(MaskTo(slice(value, 8 * (i - 1), 8 * i), 8))])

\* le32_to_bytes(value): (value >> (i * 8)) & 0xff for i in range(4).
le32_to_bytes(value) ==
    Tuple([i \in 1..4 |-> ToNat(MaskTo(slice(value, 8 * (i - 1), 8 * i), 8))])

\* ------------------------------------------------------------------------
\* registers.py
\* ------------------------------------------------------------------------
CORE_REGISTER ==
    [r0 |-> 0, r1 |-> 1, r2 |-> 2, r3 |-> 3, r4 |-> 4, r5 |-> 5,
     r6 |-> 6, r7 |-> 7, r8 |-> 8, r9 |-> 9, r10 |-> 10, r11 |-> 11,
     r12 |-> 12, sp |-> 13, r13 |-> 13, lr |-> 14, r14 |-> 14, pc |-> 15,
     r15 |-> 15, xpsr |-> 16, msp |-> 17, psp |-> 18, control |-> -4, faultmask |-> -3,
     basepri |-> -2, primask |-> -1, fpscr |-> 33, s0 |-> 64, s1 |-> 65, s2 |-> 66,
     s3 |-> 67, s4 |-> 68, s5 |-> 69, s6 |-> 70, s7 |-> 71, s8 |-> 72,
     s9 |-> 73, s10 |-> 74, s11 |-> 75, s12 |-> 76, s13 |-> 77, s14 |-> 78,
     s15 |-> 79, s16 |-> 80, s17 |-> 81, s18 |-> 82, s19 |-> 83, s20 |-> 84,
     s21 |-> 85, s22 |-> 86, s23 |-> 87, s24 |-> 88, s25 |-> 89, s26 |-> 90,
     s27 |-> 91, s28 |-> 92, s29 |-> 93, s30 |-> 94, s31 |-> 95]

RegisterIndexes == {CORE_REGISTER[k] : k \in DOMAIN CORE_REGISTER}

\* ------------------------------------------------------------------------
\* mock_cpu.py: MockCpuModelDelegate.  A register value is a Python int in
\* 0 .. 2^32 - 1, held as 32 bits.
\* ------------------------------------------------------------------------
\* __init__: every register 0, the T bit (bit 24) set in xpsr; no memory.
MockCpuModelDelegate_regs ==
    [reg \in RegisterIndexes |->
        IF reg = 16 THEN Tuple([i \in 1..32 |-> IF i = 25 THEN 1 ELSE 0]) ELSE zeros(32)]

\* add_memory(start, length)
add_memory(m, start, length) ==
    Append(m, [start |-> start, end |-> start + length - 1,
               data |-> Tuple([i \in 1..length |-> 0])])

\* write_register(reg, value): self._regs[reg] = v and the mirroring of SP
\* writes to MSP/PSP and back; spsel is (CORE_REGISTER['control'] & 2) >> 1
\* with CORE_REGISTER['control'] = -4.
write_register_mirror(R, r, reg, v, spsel) ==
    IF reg = R.sp
        THEN IF spsel = 1 THEN [r EXCEPT ![reg] = v, ![R.psp] = v]
             ELSE [r EXCEPT ![reg] = v, ![R.msp] = v]
    ELSE IF (reg = R.msp /\ spsel = 0) \/ (reg = R.psp /\ spsel = 1)
        THEN [r EXCEPT ![reg] = v, ![R.sp] = v]
    ELSE [r EXCEPT ![reg] = v]

\* The restrictions with the alignment applied to writes of sp alone.
write_register_value_sp(R, reg, value) ==
    IF reg \in {R.faultmask, R.primask} THEN MaskTo(MaskTo(value, 1), 32)
    ELSE IF reg = R.basepri THEN MaskTo(MaskTo(value, 8), 32)
    ELSE IF reg = R.sp
        THEN Tuple([i \in 1..32 |-> IF i <= 2 THEN 0 ELSE value[i]])
    ELSE value

\* write_register(reg, value): the restrictions on the value written.
write_register_value(R, reg, value) ==
    IF reg \in {R.faultmask, R.primask} THEN MaskTo(MaskTo(value, 1), 32)
    ELSE IF reg = R.basepri THEN MaskTo(MaskTo(value, 8), 32)
    ELSE IF reg \in {R.sp, R.msp, R.psp}
        THEN Tuple([i \in 1..32 |-> IF i <= 2 THEN 0 ELSE value[i]])
    ELSE value

\* write_register(reg, value) on the _regs dictionary r.
MockCpuModelDelegate_write_register(r, reg, value) ==
    write_register_mirror(CORE_REGISTER, r, reg,
                          write_register_value(CORE_REGISTER, reg, value),
                          (CORE_REGISTER.control \div 2) % 2)

\* _find_mem(addr): the first buffer with start <= addr <= end (its index in
\* _mem, 0 for None) and the offset of addr in it.
RECURSIVE find_mem_from(_, _, _)
find_mem_from(m, addr, k) ==
    IF k > Len(m) THEN [mem |-> 0, offset |-> 0]
    ELSE IF LeqBits(IntBits(m[k].start, 32), addr) /\ LeqBits(addr, IntBits(m[k].end, 32))
         THEN [mem |-> k, offset |-> ToNat(sub(addr, IntBits(m[k].start, 32)))]
         ELSE find_mem_from(m, addr, k + 1)

find_mem(m, addr) == find_mem_from(m, addr, 1)

\* read_memory once _find_mem gave f: the int read (size bits) or the
\* exception raised.  A slice that runs over the end of the bytearray is
\* short, and indexing it in bytes_to_le16 / bytes_to_le32 raises IndexError.
read_memory_at(m, f, size) ==
    IF f.mem = 0 THEN [v |-> zeros(size), exc |-> None]
    ELSE IF f.offset + (size \div 8) > Len(m[f.mem].data)
         THEN [v |-> zeros(size), exc |-> "IndexError"]
    ELSE IF size = 8  THEN [v |-> IntBits(m[f.mem].data[f.offset + 1], 8), exc |-> None]
    ELSE IF size = 16 THEN [v |-> bytes_to_le16(m[f.mem].data, f.offset), exc |-> None]
    ELSE IF size = 32 THEN [v |-> bytes_to_le32(m[f.mem].data, f.offset), exc |-> None]
    ELSE [v |-> zeros(size), exc |-> None]

\* read_memory(addr, size)
MockCpuModelDelegate_read_memory(m, addr, size) == read_memory_at(m, find_mem(m, addr), size)

\* data[offset:offset+n] = bytes: a slice assignment on the bytearray.
assign_slice(data, offset, n, bytes) ==
    SubSeq(data, 1, offset) \o bytes
        \o (IF offset + n >= Len(data) THEN <<>> ELSE SubSeq(data, offset + n + 1, Len(data)))

\* write_memory once _find_mem gave f: the _mem list afterwards, or the
\* exception (a bytearray element must be in range(256)).
write_memory_at(m, f, value, size) ==
    IF f.mem = 0 THEN [mem |-> m, exc |-> None]
    ELSE IF size = 8
         THEN IF \E i \in 9..Len(value) : value[i] = 1
              THEN [mem |-> m, exc |-> "ValueError"]
              ELSE [mem |-> [m EXCEPT ![f.mem].data =
                                assign_slice(@, f.offset, 1, <<ToNat(MaskTo(value, 8))>>)],
                    exc |-> None]
    ELSE IF size = 16
         THEN [mem |-> [m EXCEPT ![f.mem].data =
                           assign_slice(@, f.offset, 2, le16_to_bytes(value))],
               exc |-> None]
    ELSE IF size = 32
         THEN [mem |-> [m EXCEPT ![f.mem].data =
                           assign_slice(@, f.offset, 4, le32_to_bytes(value))],
               exc |-> None]
    ELSE [mem |-> m, exc |-> None]

\* write_memory(addr, value, size)
MockCpuModelDelegate_write_memory(m, addr, value, size) ==
    write_memory_at(m, find_mem(m, addr), value, size)

\* ------------------------------------------------------------------------
\* model.py: CpuModel over its delegate.  A cpu value c carries the delegate's
\* registers and memory, the memory accesses made so far in the current call
\* (acc) and the exception the call has ended in (exc); once exc is set the
\* remaining statements of the call do nothing.
\* ------------------------------------------------------------------------
Cpu(r, m) == [regs |-> r, mem |-> m, acc |-> <<>>, exc |-> None]

raise(c, e) == IF c.exc # None THEN c ELSE [c EXCEPT !.exc = e]

\* CpuModel.nPRIV: the bit of CONTROL that is 1 in unprivileged Thread mode.
nPRIV == 0

\* read_register(reg): bitstring(int), 32 wide for an int up to 1 << 32.
CpuModel_read_register(c, reg) == bitstring(c.regs[reg], 32)

\* write_register(reg, value): value.unsigned handed to the delegate.
CpuModel_write_register(c, reg, value) ==
    IF c.exc # None THEN c
    ELSE [c EXCEPT !.regs = MockCpuModelDelegate_write_register(
                                @, reg, IF Len(value) < 32 THEN MaskTo(value, 32) ELSE value)]

\* is_privileged: self.control[self.nPRIV] == '0'
CpuModel_is_privileged(c) ==
    get_bit(CpuModel_read_register(c, CORE_REGISTER.control), nPRIV) = bit0

\* The cpu and the bitstring of a read whose delegate call gave r.
read_memory_result(c, addr, size, r) ==
    [c |-> [c EXCEPT !.exc = r.exc,
                     !.acc = Append(@, [op |-> "read", addr |-> addr,
                                        size |-> size, value |-> r.v])],
     v |-> bitstring(r.v, size)]

\* read_memory(addr, size): bitstring(delegate.read_memory(addr, size), size)
CpuModel_read_memory(c, addr, size) ==
    IF c.exc # None THEN [c |-> c, v |-> zeros(size)]
    ELSE read_memory_result(c, addr, size,
                            MockCpuModelDelegate_read_memory(c.mem, addr, size))

\* The cpu of a write whose delegate call gave w.
write_memory_result(c, addr, value, size, w) ==
    [c EXCEPT !.mem = w.mem, !.exc = w.exc,
              !.acc = Append(@, [op |-> "write", addr |-> addr,
                                 size |-> size, value |-> value])]

\* write_memory(addr, value, size)
CpuModel_write_memory(c, addr, value, size) ==
    IF c.exc # None THEN c
    ELSE write_memory_result(c, addr, value, size,
                             MockCpuModelDelegate_write_memory(c.mem, addr, value, size))

read32(c, addr) == CpuModel_read_memory(c, addr, 32)

write32(c, addr, value) == CpuModel_write_memory(c, addr, value, 32)

\* pc_for_instr: read_register('pc') + 4
pc_for_instr(c) == add_int(CpuModel_read_register(c, CORE_REGISTER.pc), 4)

\* RegistersInterface.__getitem__(key) with _first and _last; cpu.r is
\* RegistersInterface(cpu, 0, 15).
RegistersInterface_getitem(c, first, last, key) ==
    LET index == first + key
    IN  IF first + index > last
        THEN [v |-> zeros(32), exc |-> "KeyError"]
        ELSE [v |-> CpuModel_read_register(c, first + index), exc |-> None]

\* RegistersInterface.__setitem__(key, value)
RegistersInterface_setitem(c, first, last, key, value) ==
    LET index == first + key
    IN  IF index > last THEN raise(c, "KeyError")
        ELSE CpuModel_write_register(c, index, value)

\* cpu.r[key], read and written
r_get(c, key) == RegistersInterface_getitem(c, 0, 15, key).v

r_set(c, key, value) == RegistersInterface_setitem(c, 0, 15, key, value)

\* ApsrAlias: bit positions and the n, z, c, v properties.
N_BIT == 31

Z_BIT == 30

C_BIT == 29

V_BIT == 28

\* getter: self._cpu.xpsr[BIT]
apsr_get(c, bitpos) == get_bit(CpuModel_read_register(c, CORE_REGISTER.xpsr), bitpos)

\* A setter that writes the flag into a cleared word.
apsr_set_cleared(c, bitpos, value) ==
    CpuModel_write_register(c, CORE_REGISTER.xpsr,
                            set_bit(zeros(32), bitpos, bitstring(value, 1)[1]))

\* setter: v = xpsr; v[BIT] = bitstring(value, 1); xpsr = v
apsr_set(c, bitpos, value) ==
    LET v == CpuModel_read_register(c, CORE_REGISTER.xpsr)
    IN  CpuModel_write_register(c, CORE_REGISTER.xpsr,
                                set_bit(v, bitpos, bitstring(value, 1)[1]))

\* ------------------------------------------------------------------------
\* decoder.py: Instruction.  An instruction object is a record of its
\* attributes; class is the Python class of the object and hasattr(i, 'm') is
\* "m" \in DOMAIN i.  The operands list (formatting data) is left out.
\* ------------------------------------------------------------------------
hasattr(i, name) == name \in DOMAIN i

\* setattr for every key of attrs
setattrs(i, attrs) == attrs @@ i

Instruction_init(klass, mnemonic, word, is32bit) ==
    [class |-> klass, mnemonic |-> mnemonic, word |-> word, is32bit |-> is32bit,
     address |-> 0]

\* the size property
size(i) == IF i.is32bit THEN 4 ELSE 2

\* cpu.pc += self.size
pc_iadd(c, k) ==
    CpuModel_write_register(c, CORE_REGISTER.pc,
                            add_int(CpuModel_read_register(c, CORE_REGISTER.pc), k))

\* Instruction._eval
Instruction_eval(c, i) == [c |-> pc_iadd(c, size(i)), i |-> i]

\* ------------------------------------------------------------------------
\* instructions.py: instruction classes
\* ------------------------------------------------------------------------
\* The condition table with the test of "ls" written with "and" for "or".
CONDITIONS_ls_and(key, xpsr) ==
    CASE key = 0  -> get_bit(xpsr, Z_BIT) = bit1
      [] key = 1  -> get_bit(xpsr, Z_BIT) = bit0
      [] key = 2  -> get_bit(xpsr, C_BIT) = bit1
      [] key = 3  -> get_bit(xpsr, C_BIT) = bit0
      [] key = 4  -> get_bit(xpsr, N_BIT) = bit1
      [] key = 5  -> get_bit(xpsr, N_BIT) = bit0
      [] key = 6  -> get_bit(xpsr, V_BIT) = bit1
      [] key = 7  -> get_bit(xpsr, V_BIT) = bit0
      [] key = 8  -> get_bit(xpsr, C_BIT) = bit1 /\ get_bit(xpsr, Z_BIT) = bit0
      [] key = 9  -> get_bit(xpsr, C_BIT) = bit0 /\ get_bit(xpsr, Z_BIT) = bit1
      [] key = 10 -> get_bit(xpsr, N_BIT) = get_bit(xpsr, V_BIT)
      [] key = 11 -> get_bit(xpsr, N_BIT) # get_bit(xpsr, V_BIT)
      [] key = 12 -> get_bit(xpsr, Z_BIT) = bit0
                         /\ get_bit(xpsr, N_BIT) = get_bit(xpsr, V_BIT)
      [] key = 13 -> get_bit(xpsr, Z_BIT) = bit1
                         \/ get_bit(xpsr, N_BIT) # get_bit(xpsr, V_BIT)
      [] key = 14 -> TRUE
      [] key = 15 -> TRUE

\* CONDITIONS[key].expr(apsr) on the xpsr value the apsr properties read.
CONDITIONS_lambda(key, xpsr) ==
    CASE key = 0  -> get_bit(xpsr, Z_BIT) = bit1
      [] key = 1  -> get_bit(xpsr, Z_BIT) = bit0
      [] key = 2  -> get_bit(xpsr, C_BIT) = bit1
      [] key = 3  -> get_bit(xpsr, C_BIT) = bit0
      [] key = 4  -> get_bit(xpsr, N_BIT) = bit1
      [] key = 5  -> get_bit(xpsr, N_BIT) = bit0
      [] key = 6  -> get_bit(xpsr, V_BIT) = bit1
      [] key = 7  -> get_bit(xpsr, V_BIT) = bit0
      [] key = 8  -> get_bit(xpsr, C_BIT) = bit1 /\ get_bit(xpsr, Z_BIT) = bit0
      [] key = 9  -> get_bit(xpsr, C_BIT) = bit0 \/ get_bit(xpsr, Z_BIT) = bit1
      [] key = 10 -> get_bit(xpsr, N_BIT) = get_bit(xpsr, V_BIT)
      [] key = 11 -> get_bit(xpsr, N_BIT) # get_bit(xpsr, V_BIT)
      [] key = 12 -> get_bit(xpsr, Z_BIT) = bit0
                         /\ get_bit(xpsr, N_BIT) = get_bit(xpsr, V_BIT)
      [] key = 13 -> get_bit(xpsr, Z_BIT) = bit1
                         \/ get_bit(xpsr, N_BIT) # get_bit(xpsr, V_BIT)
      [] key = 14 -> TRUE
      [] key = 15 -> TRUE

\* CONDITIONS[key].expr(cpu.apsr)
CONDITIONS_expr(key, c) ==
    CONDITIONS_lambda(key, CpuModel_read_register(c, CORE_REGISTER.xpsr))

\* CONDITIONS[key].mnemonic
CONDITIONS_mnemonic(key) ==
    <<"eq", "ne", "cs", "cc", "mi", "pl", "vs", "vc",
      "hi", "ls", "ge", "lt", "gt", "le", "", "">>[key + 1]

\* A ConditionInfo taken from CONDITIONS, and a bitstring stored in its place.
ConditionInfo(key) == [type |-> "ConditionInfo", key |-> key]

BitstringValue(b) == [type |-> "bitstring", value |-> b]

Branch_init(mnemonic, word, is32bit) ==
    [with_link |-> FALSE, cond |-> ConditionInfo(15), pc_delta |-> 0]
        @@ Instruction_init("Branch", mnemonic, word, is32bit)

\* Branch._eval, the write of cpu.pc: Rm with bit 0 cleared, or
\* next_instr + self.imm32.
Branch_target(c, i, next_instr) ==
    IF hasattr(i, "m")
    THEN CpuModel_write_register(c, CORE_REGISTER.pc,
                                 set_bit(bitstring(r_get(c, i.m), 32), 0, 0))
    ELSE CpuModel_write_register(c, CORE_REGISTER.pc, add(next_instr, i.imm32))

\* Branch._eval once the condition holds: cpu.lr = next_instr | 1 with
\* with_link, then the target.
Branch_taken(c, i, next_instr) ==
    Branch_target(IF i.with_link
                  THEN CpuModel_write_register(c, CORE_REGISTER.lr, or_int1(next_instr))
                  ELSE c,
                  i, next_instr)

\* Branch._eval; self.cond.expr on a cond that is no ConditionInfo raises
\* AttributeError.
Branch_eval(c, i) ==
    IF i.cond.type # "ConditionInfo" THEN [c |-> raise(c, "AttributeError"), i |-> i]
    ELSE IF CONDITIONS_expr(i.cond.key, c)
    THEN [c |-> Branch_taken(c, i, add_int(pc_for_instr(c), i.pc_delta)), i |-> i]
    ELSE [c |-> pc_iadd(c, size(i)), i |-> i]

\* class SetFlags
SetFlags == [Always |-> 1, Never |-> 2, NotInITBlock |-> 3]

\* DataProcessing.__init__
DataProcessing_init(klass, mnemonic, word, is32bit) ==
    [setflags |-> SetFlags.Never] @@ Instruction_init(klass, mnemonic, word, is32bit)

\* CpuModel.in_it_block
in_it_block(c) == FALSE

\* DataProcessing._set_flags(cpu, result, carry, overflow) with a carry and an
\* overflow that are not None.
DataProcessing_set_flags(c, i, result, carry, overflow) ==
    LET setflags == CASE i.setflags = SetFlags.Always -> TRUE
                      [] i.setflags = SetFlags.Never -> FALSE
                      [] i.setflags = SetFlags.NotInITBlock -> ~in_it_block(c)
    IN  IF setflags
        THEN apsr_set(apsr_set(apsr_set(apsr_set(c, N_BIT, get_bit(result, 31)),
                                        Z_BIT, is_zero_bit(result)),
                               C_BIT, carry),
                      V_BIT, overflow)
        ELSE c

\* ReverseSubtract._eval; a is what AddWithCarry(~cpu.r[self.n], self.imm32,
\* bit1) returns, and self.imm32 is the object AddWithCarry read .signed of.
ReverseSubtract_flags(c, i, a) ==
    [c |-> pc_iadd(DataProcessing_set_flags(r_set(c, i.d, a.result), i, a.result,
                                            a.carry_out, a.overflow),
                   size(i)),
     i |-> [i EXCEPT !.imm32 = a.y]]

ReverseSubtract_eval(c, i) ==
    ReverseSubtract_flags(c, i, AddWithCarry(invert(r_get(c, i.n)), i.imm32, bit1))

Compare_init(mnemonic, word, is32bit) ==
    [negate |-> TRUE] @@ Instruction_init("Compare", mnemonic, word, is32bit)

\* Compare._eval, shifted: the object self.imm32 itself, or a fresh read of Rm.
Compare_shifted(c, i) == IF hasattr(i, "m") THEN r_get(c, i.m) ELSE i.imm32

\* Compare._eval from the return of AddWithCarry (a) on: the four flags and
\* the PC.  self.imm32 is left as ~shifted and AddWithCarry's reads of .signed
\* left it.
Compare_flags(c, i, a) ==
    [c |-> pc_iadd(apsr_set(apsr_set(apsr_set(apsr_set(c, N_BIT, get_bit(a.result, 31)),
                                              Z_BIT, is_zero_bit(a.result)),
                                     C_BIT, a.carry_out),
                            V_BIT, a.overflow),
                   size(i)),
     i |-> IF hasattr(i, "m") THEN i ELSE [i EXCEPT !.imm32 = a.y]]

\* Compare._eval; ~shifted inverts the object in place.
Compare_eval(c, i) ==
    Compare_flags(c, i,
                  AddWithCarry(r_get(c, i.n),
                               IF i.negate THEN invert(Compare_shifted(c, i))
                               ELSE Compare_shifted(c, i),
                               IF i.negate THEN bit1 ELSE bit0))

Load_init(klass, mnemonic, word, is32bit) ==
    [memsize |-> 32, signed |-> FALSE] @@ Instruction_init(klass, mnemonic, word, is32bit)

\* LoadLiteral.__init__: Load.__init__ and self.add = True
LoadLiteral_init(mnemonic, word, is32bit) ==
    [add |-> TRUE] @@ Load_init("LoadLiteral", mnemonic, word, is32bit)

\* The offset and the address of Load._eval and Store._eval.
LoadStore_offset(c, i) ==
    IF hasattr(i, "imm32") THEN [result |-> i.imm32, exc |-> None]
    ELSE Shift(r_get(c, i.m), i.shift_t, i.shift_n, apsr_get(c, C_BIT))

LoadStore_offset_addr(c, i, offset) ==
    IF i.add THEN add(r_get(c, i.n), offset) ELSE sub(r_get(c, i.n), offset)

\* The end of Load._eval with zero_extend for signed loads too.
Load_data_unsigned(rd, i, offset_addr) ==
    [c |-> pc_iadd(r_set(IF i.wback THEN r_set(rd.c, i.n, offset_addr) ELSE rd.c,
                         i.t, zero_extend(rd.v, 32)),
                   size(i)),
     i |-> i]

\* Load._eval from data = cpu.read_memory(address, memsize) (rd) on.
Load_data(rd, i, offset_addr) ==
    [c |-> pc_iadd(r_set(IF i.wback THEN r_set(rd.c, i.n, offset_addr) ELSE rd.c,
                         i.t,
                         IF i.signed THEN sign_extend(rd.v, 32) ELSE zero_extend(rd.v, 32)),
                   size(i)),
     i |-> i]

\* Load._eval from offset_addr on; r is the cpu the instruction started on.
Load_address(c, r, i, offset_addr) ==
    Load_data(CpuModel_read_memory(c, IF i.index THEN offset_addr ELSE r_get(r, i.n),
                                   i.memsize),
              i, offset_addr)

\* Load._eval from the offset (off) on; Shift may have raised.
Load_offset(c, i, off) ==
    Load_address(IF off.exc # None THEN raise(c, off.exc) ELSE c, c, i,
                 LoadStore_offset_addr(c, i, off.result))

\* Load._eval
Load_eval(c, i) == Load_offset(c, i, LoadStore_offset(c, i))

\* Store._eval from offset_addr on; r is the cpu the instruction started on.
Store_address(c, r, i, offset_addr) ==
    [c |-> pc_iadd(CpuModel_write_memory(c, IF i.index THEN offset_addr ELSE r_get(r, i.n),
                                         slice(r_get(r, i.t), 0, i.memsize), i.memsize),
                   size(i)),
     i |-> i]

\* Store._eval from the offset (off) on; Shift may have raised.
Store_offset(c, i, off) ==
    Store_address(IF off.exc # None THEN raise(c, off.exc) ELSE c, c, i,
                  LoadStore_offset_addr(c, i, off.result))

\* Store._eval
Store_eval(c, i) == Store_offset(c, i, LoadStore_offset(c, i))

\* for i in range(15): if self.registers[i]: cpu.write32(address, cpu.r[i]);
\* address += 4   -- from register k on; gives the cpu and the final address.
\* An exception ends the loop.
RECURSIVE store_registers(_, _, _, _)
store_registers(c, registers, address, k) ==
    IF k = 15 \/ c.exc # None THEN [c |-> c, address |-> address]
    ELSE IF get_bit(registers, k) = bit1
         THEN store_registers(write32(c, address, r_get(c, k)), registers,
                              add_int(address, 4), k + 1)
         ELSE store_registers(c, registers, address, k + 1)

\* The loop body with the assignment to cpu.r[i] left out.
load_register_skip(rd, k) == rd.c

\* cpu.r[i] = (the word read32 returned, rd)
load_register(rd, k) == r_set(rd.c, k, rd.v)

\* for i in range(15): if self.registers[i]: cpu.r[i] = cpu.read32(address);
\* address += 4
RECURSIVE load_registers(_, _, _, _)
load_registers(c, registers, address, k) ==
    IF k = 15 \/ c.exc # None THEN [c |-> c, address |-> address]
    ELSE IF get_bit(registers, k) = bit1
         THEN load_registers(load_register(read32(c, address), k), registers,
                             add_int(address, 4), k + 1)
         ELSE load_registers(c, registers, address, k + 1)

\* cpu.pc = (the word read32 returned, rd)
load_pc_word(rd) == CpuModel_write_register(rd.c, CORE_REGISTER.pc, rd.v)

\* if self.registers[15]: cpu.pc = cpu.read32(address)  else: cpu.pc += self.size
load_pc(c, i, address) ==
    IF get_bit(i.registers, 15) = bit1
    THEN load_pc_word(read32(c, address))
    ELSE pc_iadd(c, size(i))

\* Push._eval from address = cpu.sp - 4 * bit_count on.
Push_address(c, i, address) ==
    [c |-> pc_iadd(store_registers(CpuModel_write_register(c, CORE_REGISTER.sp, address),
                                   i.registers, address, 0).c,
                   size(i)),
     i |-> i]

\* Push._eval
Push_eval(c, i) ==
    Push_address(c, i, sub(CpuModel_read_register(c, CORE_REGISTER.sp),
                           IntBits(4 * bit_count(i.registers), 32)))

\* The end of Pop._eval and LoadMultiple._eval after the register loop (ld).
loaded_pc(ld, i) == load_pc(ld.c, i, ld.address)

\* Pop._eval
Pop_eval(c, i) ==
    [c |-> loaded_pc(load_registers(
                         CpuModel_write_register(
                             c, CORE_REGISTER.sp,
                             add_int(CpuModel_read_register(c, CORE_REGISTER.sp),
                                     4 * bit_count(i.registers))),
                         i.registers, CpuModel_read_register(c, CORE_REGISTER.sp), 0),
                     i),
     i |-> i]

\* LoadMultiple._eval, the write-back.
LoadMultiple_wback(c, i) ==
    IF i.wback /\ get_bit(i.registers, i.n) = bit0
    THEN r_set(c, i.n, add_int(r_get(c, i.n), 4 * bit_count(i.registers)))
    ELSE c

\* LoadMultiple._eval
LoadMultiple_eval(c, i) ==
    [c |-> LoadMultiple_wback(
               loaded_pc(load_registers(c, i.registers, r_get(c, i.n), 0), i), i),
     i |-> i]

\* The end of StoreMultiple._eval with the write-back left out.
StoreMultiple_no_wback(st, i) == pc_iadd(st.c, size(i))

\* StoreMultiple._eval after the register loop (st).
StoreMultiple_wback(st, i) ==
    pc_iadd(IF i.wback THEN r_set(st.c, i.n, st.address) ELSE st.c, size(i))

\* StoreMultiple._eval
StoreMultiple_eval(c, i) ==
    [c |-> StoreMultiple_wback(store_registers(c, i.registers, r_get(c, i.n), 0), i),
     i |-> i]

\* ChangeProcessorState._eval: the masks are written whatever the privilege
\* ("TODO if privileged").
ChangeProcessorState_eval(c, i) ==
    LET v  == IF i.enable THEN IntBits(0, 32) ELSE IntBits(1, 32)
        c1 == IF i.affectPri THEN CpuModel_write_register(c, CORE_REGISTER.primask, v) ELSE c
        c2 == IF i.affectFault THEN CpuModel_write_register(c1, CORE_REGISTER.faultmask, v)
              ELSE c1
    IN  [c |-> pc_iadd(c2, size(i)), i |-> i]

\* Instruction.execute: self._eval(cpu) of the object's class.
execute(c, i) ==
    CASE i.class = "Branch"        -> Branch_eval(c, i)
      [] i.class = "Compare"       -> Compare_eval(c, i)
      [] i.class = "ReverseSubtract" -> ReverseSubtract_eval(c, i)
      [] i.class = "Load"          -> Load_eval(c, i)
      [] i.class = "Store"         -> Store_eval(c, i)
      [] i.class = "Push"          -> Push_eval(c, i)
      [] i.class = "Pop"           -> Pop_eval(c, i)
      [] i.class = "LoadMultiple"  -> LoadMultiple_eval(c, i)
      [] i.class = "StoreMultiple" -> StoreMultiple_eval(c, i)
      [] i.class = "ChangeProcessorState" -> ChangeProcessorState_eval(c, i)
      [] i.class = "Instruction"   -> Instruction_eval(c, i)

\* ------------------------------------------------------------------------
\* decoder.py: format lists, Decoder, DecoderTree
\* ------------------------------------------------------------------------
\* The elements parse_spec puts in its result: the ints 0 and 1, a tuple
\* (ident, width) and a tuple (ident, bitstring).
O == [kind |-> "int", bit |-> 0]

I == [kind |-> "int", bit |-> 1]

field(ident, width) == [kind |-> "tuple", name |-> ident, isbits |-> FALSE, size |-> width]

fixed(ident, bits) == [kind |-> "tuple", name |-> ident, isbits |-> TRUE, bits |-> bits]

\* fmt.reverse()
reverse(fmt) == Tuple([k \in 1..Len(fmt) |-> fmt[Len(fmt) + 1 - k]])

\* One turn of the loop of process_fmt on element k of fmt; st holds i, mask,
\* match and d.  mask and match are Python ints below 2^32, held as 32 bits;
\* d maps a field name to the position and size its lambda captured.
RECURSIVE process_fmt_loop(_, _, _, _)
process_fmt_loop(fmt, offset, k, st) ==
    IF k > Len(fmt) THEN st
    ELSE LET f == fmt[k]
             i == st.i
         IN  IF f.kind = "int"
             THEN process_fmt_loop(fmt, offset, k + 1,
                      [st EXCEPT !.mask  = [@ EXCEPT ![i + offset + 1] = 1],
                                 !.match = [@ EXCEPT ![i + offset + 1] =
                                               IF @ + f.bit >= 1 THEN 1 ELSE 0],
                                 !.i     = i + 1])
             ELSE LET sz == IF f.isbits THEN Len(f.bits) ELSE f.size
                      m1 == IF f.isbits
                            THEN Tuple([j \in 1..32 |->
                                     IF j > i + offset /\ j <= i + offset + sz
                                     THEN 1 ELSE st.mask[j]])
                            ELSE st.mask
                      m2 == IF f.isbits
                            THEN Tuple([j \in 1..32 |->
                                     IF j > i + offset /\ j <= i + offset + sz
                                        /\ f.bits[j - i - offset] = 1
                                     THEN 1 ELSE st.match[j]])
                            ELSE st.match
                  IN  process_fmt_loop(fmt, offset, k + 1,
                          [i |-> i + sz, mask |-> m1, match |-> m2,
                           d |-> (f.name :> [i |-> i + offset, size |-> sz]) @@ st.d])

\* process_fmt(fmt, offset); exc is the assert on the total of 16 bits.
process_fmt(fmt, offset) ==
    LET st == process_fmt_loop(fmt, offset, 1,
                               [i |-> 0, mask |-> zeros(32), match |-> zeros(32), d |-> <<>>])
    IN  [mask |-> st.mask, match |-> st.match, d |-> st.d,
         exc |-> IF st.i = 16 THEN None ELSE "AssertionError"]

\* kwargs of a decorator that passes none
NoArgs == <<>>

\* @instr(mnemonic, klass, spec, spec2, **args) on a handler: one registration,
\* with parse_spec(spec) and parse_spec(spec2); a spec2 of None is the empty
\* sequence, which is the parse of no accepted format.
registration(handler, mnemonic, klass, spec, spec2, args) ==
    [handler |-> handler, mnemonic |-> mnemonic, klass |-> klass,
     spec |-> spec, spec2 |-> spec2, args |-> args]

\* Decoder.__init__ for the registration r, once process_fmt gave p1 for the
\* format and p2 for the second halfword's.
Decoder_fields(r, p1, p2) ==
    IF r.spec2 # <<>>
    THEN [handler |-> r.handler, mnemonic |-> r.mnemonic, klass |-> r.klass,
          args |-> r.args,
          mask |-> or(p1.mask, p2.mask), match |-> or(p1.match, p2.match),
          attrs |-> p2.d @@ p1.d, is32bit |-> TRUE]
    ELSE [handler |-> r.handler, mnemonic |-> r.mnemonic, klass |-> r.klass,
          args |-> r.args,
          mask |-> p1.mask, match |-> p1.match, attrs |-> p1.d, is32bit |-> FALSE]

\* Decoder.__init__ for the registration r: mask, match and attribute fields of
\* the format; a 32-bit format has its first halfword in the low 16 bits.
Decoder(r) ==
    Decoder_fields(r, process_fmt(reverse(r.spec), 0), process_fmt(reverse(r.spec2), 16))

\* The decoders of a list of registrations, in its order.
add_decoders(rows) == Tuple([k \in 1..Len(rows) |-> Decoder(rows[k])])

\* Decoder.check(word)
check(d, word) == and(word, d.mask) = d.match

\* sorted(decoders, key=hamming_weight(d._mask), reverse=True): stable, so
\* decoders of one weight keep their order.
RECURSIVE sorted_from(_, _)
sorted_from(decoders, w) ==
    IF w < 0 THEN <<>>
    ELSE SelectSeq(decoders, LAMBDA d : hamming_weight(d.mask) = w)
             \o sorted_from(decoders, w - 1)

\* The decoders left in the order they were registered in.
sorted_by_weight_unsorted(decoders) == decoders

sorted_by_weight(decoders) == sorted_from(decoders, 32)

\* functools.reduce(lambda a, b: a & b, masks): a bit of the result is set
\* iff it is set in every mask.
reduce_and(decoders) ==
    Tuple([j \in 1..32 |-> IF \A k \in 1..Len(decoders) : decoders[k].mask[j] = 1
                           THEN 1 ELSE 0])

\* DecoderTree._build_tree: a DecoderTreeNode(mask, children); children is a
\* list of decoders under mask 0 and a dict from key to node otherwise.
RECURSIVE build_tree(_)
build_tree(decoders0) ==
    LET decoders   == sorted_by_weight(decoders0)
        commonMask == reduce_and(decoders)
        keys       == {and(decoders[k].match, commonMask) : k \in 1..Len(decoders)}
    IN  IF Len(decoders) < 2 THEN [mask |-> zeros(32), children |-> decoders]
        ELSE IF is_zero(commonMask) THEN [mask |-> commonMask, children |-> decoders]
        ELSE IF Cardinality(keys) = 1 THEN [mask |-> zeros(32), children |-> decoders]
        ELSE [mask |-> commonMask,
              children |-> [key \in keys |->
                  build_tree(SelectSeq(decoders,
                                       LAMBDA d : and(d.match, commonMask) = key))]]

\* ------------------------------------------------------------------------
\* instructions.py: the decoders the @instr decorators register, each format
\* as parse_spec returns it.  Decorators apply bottom-up, so a handler's last
\* decorator registers first.
\* ------------------------------------------------------------------------
\* DecoderTree._decoders16: the 16-bit decoders in the order add_decoder was called.
instrs16 ==
    <<
      \* adc, lines 117-126
      registration("adc", "bics", "BitClear",
            <<O, I, O, O, O, O, I, I, I, O, field("Rm", 3), field("Rdn", 3)>>,
            <<>>, NoArgs),
      registration("adc", "orrs", "BitOp",
            <<O, I, O, O, O, O, I, I, O, O, field("Rm", 3), field("Rdn", 3)>>,
            <<>>, [op |-> "or_"]),
      registration("adc", "rors", "ShiftOp",
            <<O, I, O, O, O, O, O, I, I, I, field("Rm", 3), field("Rdn", 3)>>,
            <<>>, [type |-> SRType.SRType_ROR]),
      registration("adc", "sbcs", "AddSub",
            <<O, I, O, O, O, O, O, I, I, O, field("Rm", 3), field("Rdn", 3)>>,
            <<>>, [sub |-> TRUE, use_carry |-> TRUE]),
      registration("adc", "adcs", "AddSub",
            <<O, I, O, O, O, O, O, I, O, I, field("Rm", 3), field("Rdn", 3)>>,
            <<>>, [use_carry |-> TRUE]),
      registration("adc", "asrs", "ShiftOp",
            <<O, I, O, O, O, O, O, I, O, O, field("Rm", 3), field("Rdn", 3)>>,
            <<>>, [type |-> SRType.SRType_ASR]),
      registration("adc", "lsrs", "ShiftOp",
            <<O, I, O, O, O, O, O, O, I, I, field("Rm", 3), field("Rdn", 3)>>,
            <<>>, [type |-> SRType.SRType_LSR]),
      registration("adc", "lsls", "ShiftOp",
            <<O, I, O, O, O, O, O, O, I, O, field("Rm", 3), field("Rdn", 3)>>,
            <<>>, [type |-> SRType.SRType_LSL]),
      registration("adc", "eors", "BitOp",
            <<O, I, O, O, O, O, O, O, O, I, field("Rm", 3), field("Rdn", 3)>>,
            <<>>, [op |-> "xor"]),
      registration("adc", "ands", "BitOp",
            <<O, I, O, O, O, O, O, O, O, O, field("Rm", 3), field("Rdn", 3)>>,
            <<>>, [op |-> "and_"]),
      \* add_imm_t1, lines 135-136
      registration("add_imm_t1", "subs", "AddSub",
            <<O, O, O, I, I, I, I, field("imm3", 3), field("Rn", 3), field("Rd", 3)>>,
            <<>>, [sub |-> TRUE]),
      registration("add_imm_t1", "adds", "AddSub",
            <<O, O, O, I, I, I, O, field("imm3", 3), field("Rn", 3), field("Rd", 3)>>,
            <<>>, NoArgs),
      \* add_imm_t2, lines 144-145
      registration("add_imm_t2", "subs", "AddSub",
            <<O, O, I, I, I, field("Rdn", 3), field("imm8", 8)>>,
            <<>>, [sub |-> TRUE]),
      registration("add_imm_t2", "adds", "AddSub",
            <<O, O, I, I, O, field("Rdn", 3), field("imm8", 8)>>,
            <<>>, NoArgs),
      \* add_reg_t1, lines 153-154
      registration("add_reg_t1", "subs", "AddSub",
            <<O, O, O, I, I, O, I, field("Rm", 3), field("Rn", 3), field("Rd", 3)>>,
            <<>>, [sub |-> TRUE]),
      registration("add_reg_t1", "adds", "AddSub",
            <<O, O, O, I, I, O, O, field("Rm", 3), field("Rn", 3), field("Rd", 3)>>,
            <<>>, NoArgs),
      \* add_reg_t2, lines 162-162
      registration("add_reg_t2", "add", "AddSub",
            <<O, I, O, O, O, I, O, O, field("DN", 1), field("Rm", 4), field("Rdn", 3)>>,
            <<>>, NoArgs),
      \* add_sp_plus_imm_t1, lines 169-169
      registration("add_sp_plus_imm_t1", "add", "AddSub",
            <<I, O, I, O, I, field("Rd", 3), field("imm8", 8)>>,
            <<>>, NoArgs),
      \* add_sp_plus_reg_t1, lines 176-176
      registration("add_sp_plus_reg_t1", "add", "AddSub",
            <<O, I, O, O, O, I, O, O, field("DM", 1), I, I, O, I, field("Rdm", 3)>>,
            <<>>, NoArgs),
      \* add_sp_plus_reg_t2, lines 184-184
      registration("add_sp_plus_reg_t2", "add", "AddSub",
            <<O, I, O, O, O, I, O, O, I, field("Rm", 4), I, O, I>>,
            <<>>, NoArgs),
      \* add_sp_plus_imm_t2, lines 194-195
      registration("add_sp_plus_imm_t2", "sub", "AddSub",
            <<I, O, I, I, O, O, O, O, I, field("imm7", 7)>>,
            <<>>, [sub |-> TRUE]),
      registration("add_sp_plus_imm_t2", "add", "AddSub",
            <<I, O, I, I, O, O, O, O, O, field("imm7", 7)>>,
            <<>>, NoArgs),
      \* shift_imm_t1, lines 202-204
      registration("shift_imm_t1", "asrs", "ShiftOp",
            <<O, O, O, fixed("stype", bstr(<<1,0>>)), field("imm5", 5), field("Rm", 3), field("Rd", 3)>>,
            <<>>, [type |-> SRType.SRType_ASR]),
      registration("shift_imm_t1", "lsrs", "ShiftOp",
            <<O, O, O, fixed("stype", bstr(<<0,1>>)), field("imm5", 5), field("Rm", 3), field("Rd", 3)>>,
            <<>>, [type |-> SRType.SRType_LSR]),
      registration("shift_imm_t1", "lsls", "ShiftOp",
            <<O, O, O, fixed("stype", bstr(<<0,0>>)), field("imm5", 5), field("Rm", 3), field("Rd", 3)>>,
            <<>>, [type |-> SRType.SRType_LSL]),
      \* rsb, lines 221-221
      registration("rsb", "rsbs", "ReverseSubtract",
            <<O, I, O, O, O, O, I, O, O, I, field("Rn", 3), field("Rd", 3)>>,
            <<>>, NoArgs),
      \* mul_t1, lines 251-251
      registration("mul_t1", "muls", "Multiply",
            <<O, I, O, O, O, O, I, I, O, I, field("Rn", 3), field("Rdm", 3)>>,
            <<>>, NoArgs),
      \* adr_t1, lines 277-277
      registration("adr_t1", "adr", "AddressToRegister",
            <<I, O, I, O, O, field("Rd", 3), field("imm8", 8)>>,
            <<>>, NoArgs),
      \* extend, lines 303-306
      registration("extend", "uxtb", "Extend",
            <<I, O, I, I, O, O, I, O, I, I, field("Rm", 3), field("Rd", 3)>>,
            <<>>, [width |-> 8, signed |-> FALSE]),
      registration("extend", "uxth", "Extend",
            <<I, O, I, I, O, O, I, O, I, O, field("Rm", 3), field("Rd", 3)>>,
            <<>>, [width |-> 16, signed |-> FALSE]),
      registration("extend", "sxtb", "Extend",
            <<I, O, I, I, O, O, I, O, O, I, field("Rm", 3), field("Rd", 3)>>,
            <<>>, [width |-> 8, signed |-> TRUE]),
      registration("extend", "sxth", "Extend",
            <<I, O, I, I, O, O, I, O, O, O, field("Rm", 3), field("Rd", 3)>>,
            <<>>, [width |-> 16, signed |-> TRUE]),
      \* rev, lines 347-349
      registration("rev_347", "revsh", "ByteReverse",
            <<I, O, I, I, I, O, I, O, I, I, field("Rm", 3), field("Rd", 3)>>,
            <<>>, [width |-> 2, signed |-> TRUE]),
      registration("rev_347", "rev16", "ByteReverse",
            <<I, O, I, I, I, O, I, O, O, I, field("Rm", 3), field("Rd", 3)>>,
            <<>>, [width |-> 2, signed |-> FALSE]),
      registration("rev_347", "rev", "ByteReverse",
            <<I, O, I, I, I, O, I, O, O, O, field("Rm", 3), field("Rd", 3)>>,
            <<>>, [width |-> 4, signed |-> FALSE]),
      \* mov0, lines 385-385
      registration("mov0_385", "mov", "Move",
            <<O, I, O, O, O, I, I, O, field("D", 1), field("Rm", 4), field("Rd", 3)>>,
            <<>>, NoArgs),
      \* mov0, lines 392-392
      registration("mov0_392", "movs", "Move",
            <<O, O, O, O, O, O, O, O, O, O, field("Rm", 3), field("Rd", 3)>>,
            <<>>, NoArgs),
      \* mov1, lines 407-407
      registration("mov1", "movs", "Move",
            <<O, O, I, O, O, field("Rd", 3), field("imm8", 8)>>,
            <<>>, NoArgs),
      \* mvn, lines 432-432
      registration("mvn", "mvns", "Move",
            <<O, I, O, O, O, O, I, I, I, I, field("Rm", 3), field("Rd", 3)>>,
            <<>>, [negate |-> TRUE]),
      \* cmp1, lines 481-481
      registration("cmp1", "cmp", "Compare",
            <<O, O, I, O, I, field("Rn", 3), field("imm8", 8)>>,
            <<>>, NoArgs),
      \* cmp3, lines 488-489
      registration("cmp3", "cmn", "Compare",
            <<O, I, O, O, O, O, I, O, I, I, field("Rm", 3), field("Rn", 3)>>,
            <<>>, [negate |-> FALSE]),
      registration("cmp3", "cmp", "Compare",
            <<O, I, O, O, O, O, I, O, I, O, field("Rm", 3), field("Rn", 3)>>,
            <<>>, NoArgs),
      \* cmp4, lines 496-496
      registration("cmp4", "cmp", "Compare",
            <<O, I, O, O, O, I, O, I, field("N", 1), field("Rm", 4), field("Rn", 3)>>,
            <<>>, NoArgs),
      \* tst, lines 521-521
      registration("tst", "tst", "Test",
            <<O, I, O, O, O, O, I, O, O, O, field("Rm", 3), field("Rn", 3)>>,
            <<>>, NoArgs),
      \* b_t1, lines 588-588
      registration("b_t1", "b", "Branch",
            <<I, I, O, I, field("cond", 4), field("imm8", 8)>>,
            <<>>, NoArgs),
      \* b_t2, lines 595-595
      registration("b_t2", "b", "Branch",
            <<I, I, I, O, O, field("imm11", 11)>>,
            <<>>, NoArgs),
      \* blx_t1, lines 609-609
      registration("blx_t1", "blx", "Branch",
            <<O, I, O, O, O, I, I, I, I, field("Rm", 4), O, O, O>>,
            <<>>, NoArgs),
      \* bx_t1, lines 617-617
      registration("bx_t1", "bx", "Branch",
            <<O, I, O, O, O, I, I, I, O, field("Rm", 4), O, O, O>>,
            <<>>, NoArgs),
      \* ldr_str_reg, lines 663-670
      registration("ldr_str_reg", "ldrsh", "Load",
            <<O, I, O, I, I, I, I, field("Rm", 3), field("Rn", 3), field("Rt", 3)>>,
            <<>>, [memsize |-> 16, signed |-> TRUE]),
      registration("ldr_str_reg", "ldrb", "Load",
            <<O, I, O, I, I, I, O, field("Rm", 3), field("Rn", 3), field("Rt", 3)>>,
            <<>>, [memsize |-> 8]),
      registration("ldr_str_reg", "ldrh", "Load",
            <<O, I, O, I, I, O, I, field("Rm", 3), field("Rn", 3), field("Rt", 3)>>,
            <<>>, [memsize |-> 16]),
      registration("ldr_str_reg", "ldr", "Load",
            <<O, I, O, I, I, O, O, field("Rm", 3), field("Rn", 3), field("Rt", 3)>>,
            <<>>, [memsize |-> 32]),
      registration("ldr_str_reg", "ldrsb", "Load",
            <<O, I, O, I, O, I, I, field("Rm", 3), field("Rn", 3), field("Rt", 3)>>,
            <<>>, [memsize |-> 8, signed |-> TRUE]),
      registration("ldr_str_reg", "strb", "Store",
            <<O, I, O, I, O, I, O, field("Rm", 3), field("Rn", 3), field("Rt", 3)>>,
            <<>>, [memsize |-> 8]),
      registration("ldr_str_reg", "strh", "Store",
            <<O, I, O, I, O, O, I, field("Rm", 3), field("Rn", 3), field("Rt", 3)>>,
            <<>>, [memsize |-> 16]),
      registration("ldr_str_reg", "str", "Store",
            <<O, I, O, I, O, O, O, field("Rm", 3), field("Rn", 3), field("Rt", 3)>>,
            <<>>, [memsize |-> 32]),
      \* ldr_str_imm, lines 704-709
      registration("ldr_str_imm", "ldrh", "Load",
            <<I, O, O, O, I, field("imm5", 5), field("Rn", 3), field("Rt", 3)>>,
            <<>>, [memsize |-> 16]),
      registration("ldr_str_imm", "strh", "Store",
            <<I, O, O, O, O, field("imm5", 5), field("Rn", 3), field("Rt", 3)>>,
            <<>>, [memsize |-> 16]),
      registration("ldr_str_imm", "ldrb", "Load",
            <<O, I, I, I, I, field("imm5", 5), field("Rn", 3), field("Rt", 3)>>,
            <<>>, [memsize |-> 8]),
      registration("ldr_str_imm", "strb", "Store",
            <<O, I, I, I, O, field("imm5", 5), field("Rn", 3), field("Rt", 3)>>,
            <<>>, [memsize |-> 8]),
      registration("ldr_str_imm", "ldr", "Load",
            <<O, I, I, O, I, field("imm5", 5), field("Rn", 3), field("Rt", 3)>>,
            <<>>, [memsize |-> 32]),
      registration("ldr_str_imm", "str", "Store",
            <<O, I, I, O, O, field("imm5", 5), field("Rn", 3), field("Rt", 3)>>,
            <<>>, [memsize |-> 32]),
      \* ldr_literal, lines 740-740
      registration("ldr_literal_740", "ldr", "LoadLiteral",
            <<O, I, O, O, I, field("Rt", 3), field("imm8", 8)>>,
            <<>>, [memsize |-> 32]),
      \* ldr_str_imm_t2, lines 762-763
      registration("ldr_str_imm_t2", "ldr", "Load",
            <<I, O, O, I, I, field("Rt", 3), field("imm8", 8)>>,
            <<>>, [memsize |-> 32]),
      registration("ldr_str_imm_t2", "str", "Store",
            <<I, O, O, I, O, field("Rt", 3), field("imm8", 8)>>,
            <<>>, [memsize |-> 32]),
      \* push_t1, lines 799-799
      registration("push_t1", "push", "Push",
            <<I, O, I, I, O, I, O, field("M", 1), field("reglist", 8)>>,
            <<>>, NoArgs),
      \* pop_t1, lines 824-824
      registration("pop_t1", "pop", "Pop",
            <<I, O, I, I, I, I, O, field("P", 1), field("reglist", 8)>>,
            <<>>, NoArgs),
      \* stm_ldm_t1, lines 874-875
      registration("stm_ldm_t1", "ldm", "LoadMultiple",
            <<I, I, O, O, I, field("Rn", 3), field("reglist", 8)>>,
            <<>>, NoArgs),
      registration("stm_ldm_t1", "stm", "StoreMultiple",
            <<I, I, O, O, O, field("Rn", 3), field("reglist", 8)>>,
            <<>>, NoArgs),
      \* cps, lines 925-925
      registration("cps", "cps", "ChangeProcessorState",
            <<I, O, I, I, O, I, I, O, O, I, I, field("im", 1), O, O, field("I", 1), field("F", 1)>>,
            <<>>, NoArgs),
      \* bkpt, lines 935-935
      registration("bkpt", "bkpt", "Instruction",
            <<I, O, I, I, I, I, I, O, field("imm8", 8)>>,
            <<>>, NoArgs),
      \* nop, lines 971-975
      registration("nop", "sev", "Instruction",
            <<I, O, I, I, I, I, I, I, O, I, O, O, O, O, O, O>>,
            <<>>, NoArgs),
      registration("nop", "wfi", "Instruction",
            <<I, O, I, I, I, I, I, I, O, O, I, I, O, O, O, O>>,
            <<>>, NoArgs),
      registration("nop", "wfe", "Instruction",
            <<I, O, I, I, I, I, I, I, O, O, I, O, O, O, O, O>>,
            <<>>, NoArgs),
      registration("nop", "yield", "Instruction",
            <<I, O, I, I, I, I, I, I, O, O, O, I, O, O, O, O>>,
            <<>>, NoArgs),
      registration("nop", "nop", "Instruction",
            <<I, O, I, I, I, I, I, I, O, O, O, O, O, O, O, O>>,
            <<>>, NoArgs),
      \* udf_t1, lines 990-991
      registration("udf_t1", "svc", "Instruction",
            <<I, I, O, I, I, I, I, I, field("imm8", 8)>>,
            <<>>, NoArgs),
      registration("udf_t1", "udf", "Instruction",
            <<I, I, O, I, I, I, I, O, field("imm8", 8)>>,
            <<>>, NoArgs)
    >>

\* DecoderTree._decoders32
instrs32 ==
    <<
      \* rsb_w, lines 229-229
      registration("rsb_w", "rsb", "ReverseSubtract",
            <<I, I, I, I, O, field("im", 1), O, I, I, I, O, field("S", 1), field("Rn", 4)>>,
            <<O, field("imm3", 3), field("Rd", 4), field("imm8", 8)>>, NoArgs),
      \* mul_t2, lines 259-259
      registration("mul_t2", "mul", "Multiply",
            <<I, I, I, I, I, O, I, I, O, O, O, O, field("Rn", 4)>>,
            <<I, I, I, I, field("Rd", 4), O, O, O, O, field("Rm", 4)>>, NoArgs),
      \* adr_t2, lines 284-285
      registration("adr_t2", "adr.w", "AddressToRegister",
            <<I, I, I, I, O, field("im", 1), I, O, O, O, O, O, I, I, I, I>>,
            <<O, field("imm3", 3), field("Rd", 4), field("imm8", 8)>>, [add |-> TRUE]),
      registration("adr_t2", "adr.w", "AddressToRegister",
            <<I, I, I, I, O, field("im", 1), I, O, I, O, I, O, I, I, I, I>>,
            <<O, field("imm3", 3), field("Rd", 4), field("imm8", 8)>>, [add |-> FALSE]),
      \* extend2, lines 313-316
      registration("extend2", "uxtb.w", "Extend",
            <<I, I, I, I, I, O, I, O, O, I, O, I, I, I, I, I>>,
            <<I, I, I, I, field("Rd", 4), I, O, field("rotate", 2), field("Rm", 4)>>, [width |-> 8, signed |-> FALSE]),
      registration("extend2", "uxth.w", "Extend",
            <<I, I, I, I, I, O, I, O, O, O, O, I, I, I, I, I>>,
            <<I, I, I, I, field("Rd", 4), I, O, field("rotate", 2), field("Rm", 4)>>, [width |-> 16, signed |-> FALSE]),
      registration("extend2", "sxtb.w", "Extend",
            <<I, I, I, I, I, O, I, O, O, I, O, O, I, I, I, I>>,
            <<I, I, I, I, field("Rd", 4), I, O, field("rotate", 2), field("Rm", 4)>>, [width |-> 8, signed |-> TRUE]),
      registration("extend2", "sxth.w", "Extend",
            <<I, I, I, I, I, O, I, O, O, O, O, O, I, I, I, I>>,
            <<I, I, I, I, field("Rd", 4), I, O, field("rotate", 2), field("Rm", 4)>>, [width |-> 16, signed |-> TRUE]),
      \* rev, lines 355-357
      registration("rev_355", "revsh.w", "ByteReverse",
            <<I, I, I, I, I, O, I, O, I, O, O, I, field("Rm1", 4)>>,
            <<I, I, I, I, field("Rd", 4), I, O, I, I, field("Rm2", 4)>>, [width |-> 2, signed |-> TRUE]),
      registration("rev_355", "rev16.w", "ByteReverse",
            <<I, I, I, I, I, O, I, O, I, O, O, I, field("Rm1", 4)>>,
            <<I, I, I, I, field("Rd", 4), I, O, O, I, field("Rm2", 4)>>, [width |-> 2, signed |-> FALSE]),
      registration("rev_355", "rev.w", "ByteReverse",
            <<I, I, I, I, I, O, I, O, I, O, O, I, field("Rm1", 4)>>,
            <<I, I, I, I, field("Rd", 4), I, O, O, O, field("Rm2", 4)>>, [width |-> 4, signed |-> FALSE]),
      \* mov_reg_t3, lines 399-399
      registration("mov_reg_t3", "mov", "Move",
            <<I, I, I, O, I, O, I, O, O, I, O, field("S", 1), I, I, I, I>>,
            <<O, O, O, O, field("Rd", 4), O, O, O, O, field("Rm", 4)>>, NoArgs),
      \* mov2, lines 415-415
      registration("mov2", "mov", "Move",
            <<I, I, I, I, O, field("im", 1), O, O, O, I, O, field("S", 1), I, I, I, I>>,
            <<O, field("imm3", 3), field("Rd", 4), field("imm8", 8)>>, NoArgs),
      \* movw, lines 424-424
      registration("movw", "movw", "Move",
            <<I, I, I, I, O, field("im", 1), I, O, O, I, O, O, field("imm4", 4)>>,
            <<O, field("imm3", 3), field("Rd", 4), field("imm8", 8)>>, NoArgs),
      \* mvnw, lines 448-448
      registration("mvnw", "mvn", "ShiftedMoveNegate",
            <<I, I, I, O, I, O, I, O, O, I, I, field("S", 1), I, I, I, I>>,
            <<O, field("imm3", 3), field("Rd", 4), field("imm2", 2), field("type", 2), field("Rm", 4)>>, NoArgs),
      \* cmp2, lines 503-504
      registration("cmp2", "cmn", "Compare",
            <<I, I, I, I, O, field("im", 1), O, I, O, O, O, I, field("Rn", 4)>>,
            <<O, field("imm3", 3), I, I, I, I, field("imm8", 8)>>, [negate |-> FALSE]),
      registration("cmp2", "cmp.w", "Compare",
            <<I, I, I, I, O, field("im", 1), O, I, I, O, I, I, field("Rn", 4)>>,
            <<O, field("imm3", 3), I, I, I, I, field("imm8", 8)>>, NoArgs),
      \* tst_w, lines 529-529
      registration("tst_w", "tst.w", "Test",
            <<I, I, I, O, I, O, I, O, O, O, O, I, field("Rn", 4)>>,
            <<O, field("imm3", 3), I, I, I, I, field("imm2", 2), field("type", 2), field("Rm", 4)>>, NoArgs),
      \* bl_t1, lines 601-601
      registration("bl_t1", "bl", "Branch",
            <<I, I, I, I, O, field("S", 1), field("imm10", 10)>>,
            <<I, I, field("J1", 1), I, field("J2", 1), field("imm11", 11)>>, NoArgs),
      \* ldr_str_reg_t2, lines 682-689
      registration("ldr_str_reg_t2", "str.w", "Store",
            <<I, I, I, I, I, O, O, O, O, I, O, O, field("Rn", 4)>>,
            <<field("Rt", 4), O, O, O, O, O, O, field("imm2", 2), field("Rm", 4)>>, [memsize |-> 32]),
      registration("ldr_str_reg_t2", "strh.w", "Store",
            <<I, I, I, I, I, O, O, O, O, O, I, O, field("Rn", 4)>>,
            <<field("Rt", 4), O, O, O, O, O, O, field("imm2", 2), field("Rm", 4)>>, [memsize |-> 16]),
      registration("ldr_str_reg_t2", "strb.w", "Store",
            <<I, I, I, I, I, O, O, O, O, O, O, O, field("Rn", 4)>>,
            <<field("Rt", 4), O, O, O, O, O, O, field("imm2", 2), field("Rm", 4)>>, [memsize |-> 8]),
      registration("ldr_str_reg_t2", "ldrsh.w", "Load",
            <<I, I, I, I, I, O, O, I, O, O, I, I, field("Rn", 4)>>,
            <<field("Rt", 4), O, O, O, O, O, O, field("imm2", 2), field("Rm", 4)>>, [memsize |-> 16, signed |-> TRUE]),
      registration("ldr_str_reg_t2", "ldrsb.w", "Load",
            <<I, I, I, I, I, O, O, I, O, O, O, I, field("Rn", 4)>>,
            <<field("Rt", 4), O, O, O, O, O, O, field("imm2", 2), field("Rm", 4)>>, [memsize |-> 8, signed |-> TRUE]),
      registration("ldr_str_reg_t2", "ldr.w", "Load",
            <<I, I, I, I, I, O, O, O, O, I, O, I, field("Rn", 4)>>,
            <<field("Rt", 4), O, O, O, O, O, O, field("imm2", 2), field("Rm", 4)>>, [memsize |-> 32]),
      registration("ldr_str_reg_t2", "ldrh.w", "Load",
            <<I, I, I, I, I, O, O, O, O, O, I, I, field("Rn", 4)>>,
            <<field("Rt", 4), O, O, O, O, O, O, field("imm2", 2), field("Rm", 4)>>, [memsize |-> 16]),
      registration("ldr_str_reg_t2", "ldrb.w", "Load",
            <<I, I, I, I, I, O, O, O, O, O, O, I, field("Rn", 4)>>,
            <<field("Rt", 4), O, O, O, O, O, O, field("imm2", 2), field("Rm", 4)>>, [memsize |-> 8]),
      \* ldr_literal, lines 747-751
      registration("ldr_literal_747", "ldrsb.w", "LoadLiteral",
            <<I, I, I, I, I, O, O, I, field("U", 1), O, O, I, I, I, I, I>>,
            <<field("Rt", 4), field("imm12", 12)>>, [memsize |-> 8, signed |-> TRUE]),
      registration("ldr_literal_747", "ldrsh.w", "LoadLiteral",
            <<I, I, I, I, I, O, O, I, field("U", 1), O, I, I, I, I, I, I>>,
            <<field("Rt", 4), field("imm12", 12)>>, [memsize |-> 16, signed |-> TRUE]),
      registration("ldr_literal_747", "ldrb.w", "LoadLiteral",
            <<I, I, I, I, I, O, O, O, field("U", 1), O, O, I, I, I, I, I>>,
            <<field("Rt", 4), field("imm12", 12)>>, [memsize |-> 8]),
      registration("ldr_literal_747", "ldrh.w", "LoadLiteral",
            <<I, I, I, I, I, O, O, O, field("U", 1), O, I, I, I, I, I, I>>,
            <<field("Rt", 4), field("imm12", 12)>>, [memsize |-> 16]),
      registration("ldr_literal_747", "ldr.w", "LoadLiteral",
            <<I, I, I, I, I, O, O, O, field("U", 1), I, O, I, I, I, I, I>>,
            <<field("Rt", 4), field("imm12", 12)>>, [memsize |-> 32]),
      \* push_t2, lines 807-807
      registration("push_t2", "push.w", "Push",
            <<I, I, I, O, I, O, O, I, O, O, I, O, I, I, O, I>>,
            <<O, field("M", 1), O, field("reglist", 13)>>, NoArgs),
      \* push_t3, lines 815-815
      registration("push_t3", "push.w", "Push",
            <<I, I, I, I, I, O, O, O, O, I, O, O, I, I, O, I>>,
            <<field("Rt", 4), I, I, O, I, O, O, O, O, O, I, O, O>>, NoArgs),
      \* pop_t2, lines 831-831
      registration("pop_t2", "pop.w", "Pop",
            <<I, I, I, O, I, O, O, O, I, O, I, I, I, I, O, I>>,
            <<field("P", 1), field("M", 1), O, field("reglist", 13)>>, NoArgs),
      \* pop_t3, lines 838-838
      registration("pop_t3", "pop.w", "Pop",
            <<I, I, I, I, I, O, O, O, O, I, O, I, I, I, O, I>>,
            <<field("Rt", 4), I, O, I, I, O, O, O, O, O, I, O, O>>, NoArgs),
      \* stm_t2, lines 884-884
      registration("stm_t2", "stm.w", "StoreMultiple",
            <<I, I, I, O, I, O, O, O, I, O, field("W", 1), O, field("Rn", 4)>>,
            <<O, field("M", 1), O, field("reglist", 13)>>, NoArgs),
      \* ldm_t2, lines 895-895
      registration("ldm_t2", "ldm.w", "LoadMultiple",
            <<I, I, I, O, I, O, O, O, I, O, field("W", 1), I, field("Rn", 4)>>,
            <<field("P", 1), field("M", 1), O, field("reglist", 13)>>, NoArgs),
      \* mrs, lines 950-950
      registration("mrs", "mrs", "MoveFromSpecial",
            <<I, I, I, I, O, O, I, I, I, I, I, O, I, I, I, I>>,
            <<I, O, O, O, field("Rd", 4), field("SYSm", 8)>>, NoArgs),
      \* msr, lines 958-958
      registration("msr", "msr", "MoveToSpecial",
            <<I, I, I, I, O, O, I, I, I, O, O, O, field("Rn", 4)>>,
            <<I, O, O, O, field("mask", 2), O, O, field("SYSm", 8)>>, NoArgs),
      \* barrier, lines 981-983
      registration("barrier", "isb", "Instruction",
            <<I, I, I, I, O, O, I, I, I, O, I, I, I, I, I, I>>,
            <<I, O, O, O, I, I, I, I, O, I, I, O, field("option", 4)>>, NoArgs),
      registration("barrier", "dmb", "Instruction",
            <<I, I, I, I, O, O, I, I, I, O, I, I, I, I, I, I>>,
            <<I, O, O, O, I, I, I, I, O, I, O, I, field("option", 4)>>, NoArgs),
      registration("barrier", "dsb", "Instruction",
            <<I, I, I, I, O, O, I, I, I, O, I, I, I, I, I, I>>,
            <<I, O, O, O, I, I, I, I, O, I, O, O, field("option", 4)>>, NoArgs),
      \* udf_t2, lines 996-996
      registration("udf_t2", "udf.w", "Instruction",
            <<I, I, I, I, O, I, I, I, I, I, I, I, field("imm4", 4)>>,
            <<I, O, I, O, field("imm12", 12)>>, NoArgs)
    >>

\* DecoderTree._decoders16 and _decoders32: a Decoder for every registration.
decoders16 == add_decoders(instrs16)

decoders32 == add_decoders(instrs32)

\* ------------------------------------------------------------------------
\* instructions.py: handlers.  A handler gets the new instruction object and
\* the named fields of the word, and gives the object back or raises.
\* ------------------------------------------------------------------------
ok(i) == [i |-> i, exc |-> None]

raises(i, e) == [i |-> i, exc |-> e]

\* LabelOperand(i.imm32.signed): reading .signed is what the object keeps of it.
after_signed(b) == signed(b, Len(b) + 1).self

b_t1(i, a) ==
    LET imm32 == sign_extend(concat(a.imm8, bstr(<<0>>)), 32)
    IN  ok(setattrs(i, [cond |-> ConditionInfo(ToNat(a.cond)),
                        mnemonic |-> "b" \o CONDITIONS_mnemonic(ToNat(a.cond)),
                        imm32 |-> after_signed(imm32)]))

b_t2(i, a) ==
    LET imm32 == sign_extend(concat(a.imm11, bstr(<<0>>)), 32)
    IN  ok(setattrs(i, [cond |-> BitstringValue(bstr(<<1, 1, 1, 1>>)),
                        imm32 |-> after_signed(imm32)]))

bl_t1(i, a) ==
    LET I1    == invert(xor(a.J1, a.S))
        I2    == invert(xor(a.J2, a.S))
        imm32 == sign_extend(
                     concat(concat(concat(concat(concat(a.S, I1), I2), a.imm10), a.imm11),
                            bstr(<<0>>)), 32)
    IN  ok(setattrs(i, [imm32 |-> after_signed(imm32), with_link |-> TRUE]))

blx_t1(i, a) == ok(setattrs(i, [m |-> ToNat(a.Rm), with_link |-> TRUE, pc_delta |-> -2]))

bx_t1(i, a) == ok(setattrs(i, [m |-> ToNat(a.Rm)]))

rsb(i, a) ==
    ok(setattrs(i, [d |-> ToNat(a.Rd), n |-> ToNat(a.Rn),
                    setflags |-> SetFlags.NotInITBlock, imm32 |-> zeros(32)]))

rsb_w(i, a) ==
    LET i1 == setattrs(i, [d |-> ToNat(a.Rd), n |-> ToNat(a.Rn)])
    IN  IF i1.d \in {13, 15} \/ i1.n \in {13, 15} THEN raises(i1, "UnpredictableError")
        ELSE ok(setattrs(i1, [setflags |-> IF a.S = bit1 THEN SetFlags.Always
                                           ELSE SetFlags.Never,
                              mnemonic |-> i1.mnemonic \o (IF a.S = bit1 THEN "s.w" ELSE ".w"),
                              imm32 |-> ThumbExpandImm(concat(concat(a.im, a.imm3), a.imm8))]))

cmp1(i, a) == ok(setattrs(i, [n |-> ToNat(a.Rn), imm32 |-> zero_extend(a.imm8, 32)]))

ldr_str_reg(i, a) ==
    ok(setattrs(i, [t |-> ToNat(a.Rt), n |-> ToNat(a.Rn), m |-> ToNat(a.Rm),
                    index |-> TRUE, add |-> TRUE, wback |-> FALSE,
                    shift_t |-> SRType.SRType_None, shift_n |-> 0]))

ldr_str_reg_t2(i, a) ==
    LET i1 == setattrs(i, [t |-> ToNat(a.Rt), n |-> ToNat(a.Rn), m |-> ToNat(a.Rm)])
    IN  IF i1.n = 15 THEN raises(i1, "DecodeError")
        ELSE ok(setattrs(i1, [index |-> TRUE, add |-> TRUE, wback |-> FALSE,
                              shift_t |-> SRType.SRType_LSL, shift_n |-> ToNat(a.imm2)]))

\* ldr_literal of lines 747-755 (the 32-bit encodings)
ldr_literal_747(i, a) ==
    LET i1 == setattrs(i, [t |-> ToNat(a.Rt)])
    IN  IF i1.t = 15 THEN raises(i1, "DecodeError")
        ELSE ok(setattrs(i1, [imm32 |-> zero_extend(a.imm12, 32), add |-> a.U = bit1]))

ldr_str_imm(i, a) ==
    LET imm5 == IF i.memsize = 32 THEN concat(a.imm5, bstr(<<0, 0>>))
                ELSE IF i.memsize = 16 THEN concat(a.imm5, bstr(<<0>>))
                ELSE a.imm5
    IN  ok(setattrs(i, [t |-> ToNat(a.Rt), n |-> ToNat(a.Rn),
                        imm32 |-> zero_extend(imm5, 32),
                        index |-> TRUE, add |-> TRUE, wback |-> FALSE]))

ldr_str_imm_t2(i, a) ==
    ok(setattrs(i, [t |-> ToNat(a.Rt), n |-> 13,
                    imm32 |-> zero_extend(concat(a.imm8, bstr(<<0, 0>>)), 32),
                    index |-> TRUE, add |-> TRUE, wback |-> FALSE]))

push_t1(i, a) ==
    LET registers == concat(concat(concat(bit0, a.M), bstr(<<0, 0, 0, 0, 0, 0>>)), a.reglist)
        i1 == setattrs(i, [registers |-> registers, unaligned_allowed |-> FALSE])
    IN  IF bit_count(registers) = 0 THEN raises(i1, "UnpredictableError") ELSE ok(i1)

\* push_t2 reads the name reglsit, which nothing binds.
push_t2(i, a) == raises(i, "NameError")

push_t3(i, a) ==
    LET Rt == ToNat(a.Rt)
        i1 == setattrs(i, [registers |-> set_bit(zeros(16), Rt, 1),
                           unaligned_allowed |-> TRUE])
    IN  IF Rt \in {13, 15} THEN raises(i1, "UnpredictableError") ELSE ok(i1)

pop_t1(i, a) ==
    LET registers == concat(concat(a.P, bstr(<<0, 0, 0, 0, 0, 0, 0>>)), a.reglist)
        i1 == setattrs(i, [registers |-> registers])
    IN  IF bit_count(registers) = 0 THEN raises(i1, "UnpredictableError") ELSE ok(i1)

pop_t2(i, a) ==
    LET registers == concat(concat(concat(a.P, a.M), bstr(<<0>>)), a.reglist)
        i1 == setattrs(i, [registers |-> registers])
    IN  IF bit_count(registers) < 2 \/ (a.P = bit1 /\ a.M = bit1)
        THEN raises(i1, "UnpredictableError") ELSE ok(i1)

pop_t3(i, a) == ok(setattrs(i, [registers |-> set_bit(zeros(16), ToNat(a.Rt), 1)]))

stm_ldm_t1(i, a) ==
    LET n         == ToNat(a.Rn)
        registers == concat(bstr(<<0, 0, 0, 0, 0, 0, 0, 0>>), a.reglist)
        i1 == setattrs(i, [n |-> n, registers |-> registers,
                           wback |-> (i.mnemonic = "stm") \/ get_bit(registers, n) = bit0])
    IN  IF bit_count(registers) < 1 THEN raises(i1, "UnpredictableError") ELSE ok(i1)

stm_t2(i, a) ==
    LET n         == ToNat(a.Rn)
        registers == concat(concat(concat(bit0, a.M), bit0), a.reglist)
        wback     == a.W = bit1
        i1 == setattrs(i, [n |-> n, registers |-> registers, wback |-> wback])
    IN  IF n = 15 \/ bit_count(registers) < 2 THEN raises(i1, "UnpredictableError")
        ELSE IF wback /\ get_bit(registers, n) = bit1 THEN raises(i1, "UnpredictableError")
        ELSE ok(i1)

ldm_t2(i, a) ==
    LET n         == ToNat(a.Rn)
        registers == concat(concat(concat(a.P, a.M), bstr(<<0>>)), a.reglist)
        wback     == a.W = bit1
        i1 == setattrs(i, [n |-> n, registers |-> registers, wback |-> wback])
    IN  IF a.W = bit1 /\ a.Rn = bstr(<<1, 1, 0, 1>>) THEN raises(i, "DecodeError")
        ELSE IF n = 15 \/ bit_count(registers) < 2 \/ (a.P = bit1 /\ a.M = bit1)
            THEN raises(i1, "UnpredictableError")
        ELSE IF wback /\ get_bit(registers, n) = bit1 THEN raises(i1, "UnpredictableError")
        ELSE ok(i1)

cps(i, a) ==
    IF ToNat(a.I) = 0 /\ ToNat(a.F) = 0 THEN raises(i, "UnpredictableError")
    ELSE ok(setattrs(i, [enable |-> a.im = bit0,
                         mnemonic |-> i.mnemonic \o (IF a.im = bit0 THEN "ie" ELSE "id"),
                         affectPri |-> a.I = bit1,
                         affectFault |-> a.F = bit1]))

bkpt(i, a) == ok(setattrs(i, [imm32 |-> zero_extend(a.imm8, 32)]))

nop(i, a) == ok(i)

udf_t1(i, a) == ok(setattrs(i, [imm32 |-> zero_extend(a.imm8, 32)]))

\* self._handler(i, **attrs) for the handlers above.
call_handler(handler, i, a) ==
    CASE handler = "b_t1"           -> b_t1(i, a)
      [] handler = "b_t2"           -> b_t2(i, a)
      [] handler = "bl_t1"          -> bl_t1(i, a)
      [] handler = "blx_t1"         -> blx_t1(i, a)
      [] handler = "bx_t1"          -> bx_t1(i, a)
      [] handler = "cmp1"           -> cmp1(i, a)
      [] handler = "rsb"            -> rsb(i, a)
      [] handler = "rsb_w"          -> rsb_w(i, a)
      [] handler = "ldr_str_reg"    -> ldr_str_reg(i, a)
      [] handler = "ldr_str_reg_t2" -> ldr_str_reg_t2(i, a)
      [] handler = "ldr_literal_747" -> ldr_literal_747(i, a)
      [] handler = "ldr_str_imm"    -> ldr_str_imm(i, a)
      [] handler = "ldr_str_imm_t2" -> ldr_str_imm_t2(i, a)
      [] handler = "push_t1"        -> push_t1(i, a)
      [] handler = "push_t2"        -> push_t2(i, a)
      [] handler = "push_t3"        -> push_t3(i, a)
      [] handler = "pop_t1"         -> pop_t1(i, a)
      [] handler = "pop_t2"         -> pop_t2(i, a)
      [] handler = "pop_t3"         -> pop_t3(i, a)
      [] handler = "stm_ldm_t1"     -> stm_ldm_t1(i, a)
      [] handler = "stm_t2"         -> stm_t2(i, a)
      [] handler = "ldm_t2"         -> ldm_t2(i, a)
      [] handler = "cps"            -> cps(i, a)
      [] handler = "bkpt"           -> bkpt(i, a)
      [] handler = "nop"            -> nop(i, a)
      [] handler = "udf_t1"         -> udf_t1(i, a)

\* ------------------------------------------------------------------------
\* decoder.py: decoding
\* ------------------------------------------------------------------------
\* No instruction object.
NoInstruction == [class |-> None]

\* self._klass(self._mnemonic, word, self.is32bit): the __init__ the class
\* has or inherits.
new(klass, mnemonic, word, is32bit) ==
    CASE klass = "Branch"  -> Branch_init(mnemonic, word, is32bit)
      [] klass = "Compare" -> Compare_init(mnemonic, word, is32bit)
      [] klass = "ReverseSubtract" -> DataProcessing_init(klass, mnemonic, word, is32bit)
      [] klass \in {"Load", "Store"} -> Load_init(klass, mnemonic, word, is32bit)
      [] klass = "LoadLiteral" -> LoadLiteral_init(mnemonic, word, is32bit)
      [] klass \in {"Instruction", "Push", "Pop", "LoadMultiple", "StoreMultiple",
                    "ChangeProcessorState"}
             -> Instruction_init(klass, mnemonic, word, is32bit)

\* Decoder.decode(word, address)
Decoder_decode(d, word, address) ==
    LET attrs == [n \in DOMAIN d.attrs |->
                     bitstring(rshift(word, d.attrs[n].i), d.attrs[n].size)]
        i0    == new(d.klass, d.mnemonic, word, d.is32bit)
        i1    == [i0 EXCEPT !.address = address]
        i2    == setattrs(i1, d.args)
    IN  call_handler(d.handler, i2, attrs)

\* DecoderTree: _32bitMask, _32bitPrefixes, and the trees build() makes.
DecoderTree_32bitMask == IntBits(63488, 16)

DecoderTree_32bitPrefixes == {IntBits(63488, 16), IntBits(61440, 16), IntBits(59392, 16)}

tree16 == build_tree(decoders16)

tree32 == build_tree(decoders32)

UndefinedInstruction == [i |-> NoInstruction, exc |-> "UndefinedInstructionError"]

\* The loop with no except clause: the exception of decoder k is the outcome.
decoded_uncaught(r, children, word, address, k) ==
    IF r.exc # None THEN [i |-> NoInstruction, exc |-> r.exc] ELSE r

\* The for loop over the decoders of a leaf, from decoder k on; decoded is
\* what decoder k made of the word (r).
RECURSIVE decode_leaf(_, _, _, _)
decoded(r, children, word, address, k) ==
    IF r.exc = "DecodeError" THEN decode_leaf(children, word, address, k + 1)
    ELSE IF r.exc # None THEN [i |-> NoInstruction, exc |-> r.exc]
    ELSE r

decode_leaf(children, word, address, k) ==
    IF k > Len(children) THEN UndefinedInstruction
    ELSE IF check(children[k], word)
         THEN decoded(Decoder_decode(children[k], word, address), children, word, address, k)
         ELSE decode_leaf(children, word, address, k + 1)

\* The while loop of decode from a node down.  children is the defaultdict(list)
\* _build_tree filled, so a key it does not hold gives a new empty list and no
\* KeyError; the next turn reads .mask of that list, which raises AttributeError
\* (the key stays in the dict, and gives the same list again).
RECURSIVE decode_node(_, _, _)
decode_node(node, word, address) ==
    IF ~is_zero(node.mask)
    THEN LET key == and(word, node.mask)
         IN  IF key \in DOMAIN node.children
             THEN decode_node(node.children[key], word, address)
             ELSE [i |-> NoInstruction, exc |-> "AttributeError"]
    ELSE decode_leaf(node.children, word, address, 1)

\* decode without the test of len(data) < 4: the read of the second halfword
\* runs over the end of the data.
decode_unchecked(data, dataAddress) ==
    IF Len(data) < 2 THEN [i |-> NoInstruction, exc |-> "AssertionError"]
    ELSE LET hw1     == bytes_to_le16(data, 0)
             is32bit == and(hw1, DecoderTree_32bitMask) \in DecoderTree_32bitPrefixes
         IN  IF is32bit
             THEN IF Len(data) < 4 THEN [i |-> NoInstruction, exc |-> "IndexError"]
                  ELSE decode_node(tree32, hw1 \o bytes_to_le16(data, 2), dataAddress)
             ELSE decode_node(tree16, MaskTo(hw1, 32), dataAddress)

\* DecoderTree.decode(data, dataAddress); data is a sequence of bytes.
decode(data, dataAddress) ==
    IF Len(data) < 2 THEN [i |-> NoInstruction, exc |-> "AssertionError"]
    ELSE LET hw1     == bytes_to_le16(data, 0)
             is32bit == and(hw1, DecoderTree_32bitMask) \in DecoderTree_32bitPrefixes
         IN  IF is32bit
             THEN IF Len(data) < 4 THEN UndefinedInstruction
                  ELSE decode_node(tree32, hw1 \o bytes_to_le16(data, 2), dataAddress)
             ELSE decode_node(tree16, MaskTo(hw1, 32), dataAddress)

\* ------------------------------------------------------------------------
\* disasm.py: Disassembler.disasm, a generator.  g is the generator object:
\* its state ("created", "suspended" at the yield, "returned", "raised"), the
\* locals address and offset, the instruction i it yielded last, what it has
\* yielded so far (address, size, word and mnemonic of each instruction), the
\* exception it raised, and whether it caught an UndefinedInstructionError.
\* ------------------------------------------------------------------------
disasm(data, address) ==
    [state |-> "created", address |-> address, offset |-> 0, i |-> NoInstruction,
     yielded |-> <<>>, exc |-> None, ignored |-> FALSE]

\* The locals advanced by 2 whatever the size of the instruction.
disasm_advance_two(v, i) == v + 2

\* address += i.size (and offset += i.size) for a local whose value is v.
disasm_advance(v, i) == v + size(i)

\* The generator as it continues after the yield: both locals advanced.
disasm_resume(g) ==
    IF g.state = "suspended"
    THEN [g EXCEPT !.address = disasm_advance(g.address, g.i),
                   !.offset = disasm_advance(g.offset, g.i)]
    ELSE g

\* The try statement of the loop body, r being what decode gave: the yield,
\* the return on an UndefinedInstructionError in the last few bytes, or the
\* exception going on to the caller.
disasm_decoded(g, endAddress, r) ==
    IF r.exc = None
    THEN [g EXCEPT !.state = "suspended", !.i = r.i,
                   !.yielded = Append(@, [address |-> r.i.address, size |-> size(r.i),
                                          word |-> r.i.word, mnemonic |-> r.i.mnemonic])]
    ELSE IF r.exc = "UndefinedInstructionError" /\ endAddress - g.address < 4
    THEN [g EXCEPT !.state = "returned", !.ignored = TRUE]
    ELSE [g EXCEPT !.state = "raised", !.exc = r.exc]

\* The while loop from its test on, for the generator g over data.
disasm_loop(g, data, endAddress) ==
    IF g.address < endAddress
    THEN disasm_decoded(g, endAddress,
                        decode(SubSeq(data, g.offset + 1, Len(data)), g.address))
    ELSE [g EXCEPT !.state = "returned"]

\* next(g): the generator runs from where it stands to its next yield, its
\* return or its raise.  endAddress is address + len(data) of the call.
disasm_next(g, data, address) == disasm_loop(disasm_resume(g), data, address + Len(data))

\* ------------------------------------------------------------------------
\* The program as a state machine.  A test or a client builds a CpuModel over
\* a MockCpuModelDelegate, sets registers, and then decodes byte strings and
\* executes the instruction objects decode returns; a helper is called with
\* operands of its own.  hist records every call with the state around it.
\* ------------------------------------------------------------------------
NoCall == [fn |-> None]

\* 2^n for the small n of the reference arithmetic in the properties.
RECURSIVE Pow2(_)
Pow2(n) == IF n = 0 THEN 1 ELSE 2 * Pow2(n - 1)

\* The state of a CPU on which nothing was called yet; no helper operands.
Fresh(r, m) ==
    /\ regs = r
    /\ mem = m
    /\ instr = NoInstruction
    /\ hist = <<>>
    /\ inp = NoCall
    /\ call = NoCall

\* The state after a call of decode that gave r.
Decoded(data, r) ==
    /\ instr' = IF r.exc = None THEN r.i ELSE instr
    /\ hist' = Append(hist, [call |-> "decode", data |-> data, exc |-> r.exc,
                             acc |-> <<>>, instr0 |-> instr, instr1 |-> instr',
                             regs0 |-> regs, mem0 |-> mem, regs1 |-> regs, mem1 |-> mem])
    /\ UNCHANGED <<regs, mem, inp, call>>

\* i = DECODER_TREE.decode(data); a raise leaves i as it was.
Decode(data) ==
    /\ Len(hist) < MaxSteps
    /\ Decoded(data, decode(data, 0))

\* The state after a call of execute that gave r.
Executed(r) ==
    /\ regs' = r.c.regs
    /\ mem' = r.c.mem
    /\ instr' = r.i
    /\ hist' = Append(hist, [call |-> "execute", data |-> <<>>, exc |-> r.c.exc,
                             acc |-> r.c.acc, instr0 |-> instr, instr1 |-> r.i,
                             regs0 |-> regs, mem0 |-> mem,
                             regs1 |-> r.c.regs, mem1 |-> r.c.mem])
    /\ UNCHANGED <<inp, call>>

\* i.execute(cpu) on the instruction object decoded last.
Execute ==
    /\ Len(hist) < MaxSteps
    /\ instr.class # None
    /\ Executed(execute(Cpu(regs, mem), instr))

\* The state after a register write that gave the cpu c.
Written(reg, c) ==
    /\ regs' = c.regs
    /\ hist' = Append(hist, [call |-> "write_register", data |-> <<reg>>, exc |-> None,
                             acc |-> <<>>, instr0 |-> instr, instr1 |-> instr,
                             regs0 |-> regs, mem0 |-> mem, regs1 |-> c.regs, mem1 |-> mem])
    /\ UNCHANGED <<mem, instr, inp, call>>

\* cpu.write_register(reg, value)
WriteRegister(reg, v) ==
    /\ Len(hist) < MaxSteps
    /\ Written(reg, CpuModel_write_register(Cpu(regs, mem), reg, v))

\* ------------------------------------------------------------------------
\* Helpers: AddWithCarry on operands of every width up to MaxWidth.
\* ------------------------------------------------------------------------
InitHelpers ==
    /\ regs = MockCpuModelDelegate_regs
    /\ mem = <<>>
    /\ instr = NoInstruction
    /\ hist = <<>>
    /\ call = NoCall
    /\ \E w \in 1..MaxWidth : \E x \in BitSeqs(w), y \in BitSeqs(w), carry_in \in {bit0, bit1} :
           inp = [fn |-> "AddWithCarry", x |-> x, y |-> y, carry_in |-> carry_in]

Returned(r) ==
    /\ call' = [fn |-> "AddWithCarry", result |-> r.result,
                carry_out |-> r.carry_out, overflow |-> r.overflow]
    /\ UNCHANGED <<regs, mem, instr, hist, inp>>

CallAddWithCarry ==
    /\ call = NoCall
    /\ Returned(AddWithCarry(inp.x, inp.y, inp.carry_in))

NextHelpers == CallAddWithCarry

SpecHelpers == InitHelpers /\ [][NextHelpers]_vars

\* The signed number a bit sequence of width w >= 1 denotes.
ToInt(b) == IF b[Len(b)] = 1 THEN ToNat(b) - Pow2(Len(b)) ELSE ToNat(b)

\* C1: for bitstrings x, y of one width w >= 1 and a carry_in bit,
\* AddWithCarry returns a result of width w and value (x + y + carry_in) mod
\* 2^w, carry_out = 1 iff the unsigned sum reaches 2^w, and overflow = 1 iff
\* the signed sum lies outside [-2^(w-1), 2^(w-1) - 1].
C1_AddWithCarryContract ==
    call.fn = "AddWithCarry" =>
        LET w    == Len(inp.x)
            usum == ToNat(inp.x) + ToNat(inp.y) + inp.carry_in[1]
            ssum == ToInt(inp.x) + ToInt(inp.y) + inp.carry_in[1]
        IN  /\ Len(call.result) = w
            /\ ToNat(call.result) = usum % Pow2(w)
            /\ (call.carry_out = bit1) <=> (usum >= Pow2(w))
            /\ (call.overflow = bit1) <=> (ssum < -Pow2(w - 1) \/ ssum > Pow2(w - 1) - 1)

\* ------------------------------------------------------------------------
\* Clients of the CPU.  A client sets the registers of a new CPU, decodes an
\* instruction and executes it, as the tests of the repository do.
\* ------------------------------------------------------------------------
\* The two bytes of a halfword and the four of a 32-bit encoding, as a client
\* hands them to decode.
Halfword(hw) == <<hw % 256, hw \div 256>>

Halfwords(hw1, hw2) == Halfword(hw1) \o Halfword(hw2)

\* cpu.write_register(reg, value) for every <<reg, value>> of ws, in order.
RECURSIVE SetRegisters(_, _)
SetRegisters(r, ws) ==
    IF ws = <<>> THEN r
    ELSE SetRegisters(MockCpuModelDelegate_write_register(r, ws[1][1], ws[1][2]), Tail(ws))

\* An xpsr value: the T bit and the flags N, Z, C, V.
Flags(n, z, c, v) ==
    Tuple([i \in 1..32 |-> IF i = 25 THEN 1
                           ELSE IF i = N_BIT + 1 THEN n
                           ELSE IF i = Z_BIT + 1 THEN z
                           ELSE IF i = C_BIT + 1 THEN c
                           ELSE IF i = V_BIT + 1 THEN v
                           ELSE 0])

\* The first call of a client: decode of one of codes.
DecodeFirst(codes) == \E data \in codes : hist = <<>> /\ Decode(data)

\* The last call made, and the halfwords of the instruction it worked on.
Last == hist[Len(hist)]

Hw1(i) == ToNat(SubSeq(i.word, 1, 16))

Hw2(i) == ToNat(SubSeq(i.word, 17, 32))

\* a + k mod 2^32 for a 32-bit word a and an integer k.
Plus(a, k) == AddBits(a, IntBits(k, 32), 0)

\* A word with bit 0 cleared, and with bit 0 set.
ClearBit0(a) == [a EXCEPT ![1] = 0]

SetBit0(a) == [a EXCEPT ![1] = 1]

\* ------------------------------------------------------------------------
\* Branches: B<cond> (T1), B (T2), BL, BX and BLX on a CPU with any flags.
\* ------------------------------------------------------------------------
\* b<cond> .+52 and .-4 for the fourteen conditions, b and bl forward and
\* backward, bx and blx of r0..r14.
BranchCodes ==
    {Halfword(53248 + 256 * cond + imm8) : cond \in 0..13, imm8 \in {24, 252}}
        \cup {Halfword(57344 + imm11) : imm11 \in {24, 2044}}
        \cup {Halfwords(61441, 65455), Halfwords(63487, 65532)}
        \cup {Halfword(18176 + 8 * m) : m \in 0..14}
        \cup {Halfword(18304 + 8 * m) : m \in 0..14}

\* Register k holds 16 * k + 4097 (an odd address), the PC 0x8000 or, for the
\* wrap at 2^32, 0xfffffff0.
InitBranch ==
    \E n \in Bit, z \in Bit, c \in Bit, v \in Bit, pc \in {IntBits(32768, 32), IntBits(-16, 32)} :
        Fresh(SetRegisters(MockCpuModelDelegate_regs,
                           [k \in 1..15 |-> <<k - 1, IntBits(16 * (k - 1) + 4097, 32)>>]
                               \o << <<CORE_REGISTER.pc, pc>>,
                                     <<CORE_REGISTER.xpsr, Flags(n, z, c, v)>> >>),
              <<>>)

NextBranch == DecodeFirst(BranchCodes) \/ Execute

SpecBranch == InitBranch /\ [][NextBranch]_vars

\* The encodings, read from the instruction word.
IsBCond(i) == ~i.is32bit /\ Hw1(i) \div 4096 = 13 /\ (Hw1(i) \div 256) % 16 <= 13

IsB(i) == ~i.is32bit /\ Hw1(i) \div 2048 = 28

IsBL(i) == i.is32bit /\ Hw1(i) \div 2048 = 30 /\ Hw2(i) \div 16384 = 3 /\ (Hw2(i) \div 4096) % 2 = 1

IsBX(i) == ~i.is32bit /\ Hw1(i) \div 128 = 142 /\ Hw1(i) % 8 = 0

IsBLX(i) == ~i.is32bit /\ Hw1(i) \div 128 = 143 /\ Hw1(i) % 8 = 0

\* The signed byte offset an encoding holds: SignExtend(imm8:'0'),
\* SignExtend(imm11:'0') and SignExtend(S:I1:I2:imm10:imm11:'0').
OffsetBCond(hw) == 2 * (hw % 256) - (IF hw % 256 >= 128 THEN 512 ELSE 0)

OffsetB(hw) == 2 * (hw % 2048) - (IF hw % 2048 >= 1024 THEN 4096 ELSE 0)

OffsetBL(hw1, hw2) ==
    LET S  == (hw1 \div 1024) % 2
        I1 == 1 - ((((hw2 \div 8192) % 2) + S) % 2)
        I2 == 1 - ((((hw2 \div 2048) % 2) + S) % 2)
    IN  I1 * 8388608 + I2 * 4194304 + (hw1 % 1024) * 4096 + (hw2 % 2048) * 2 - S * 16777216

BranchOffset(i) ==
    IF IsBCond(i) THEN OffsetBCond(Hw1(i))
    ELSE IF IsB(i) THEN OffsetB(Hw1(i))
    ELSE OffsetBL(Hw1(i), Hw2(i))

\* The condition table: does cond hold on an xpsr value?
ConditionHolds(cond, xpsr) ==
    LET N == xpsr[32]
        Z == xpsr[31]
        C == xpsr[30]
        V == xpsr[29]
    IN  CASE cond = 0  -> Z = 1
          [] cond = 1  -> Z = 0
          [] cond = 2  -> C = 1
          [] cond = 3  -> C = 0
          [] cond = 4  -> N = 1
          [] cond = 5  -> N = 0
          [] cond = 6  -> V = 1
          [] cond = 7  -> V = 0
          [] cond = 8  -> C = 1 /\ Z = 0
          [] cond = 9  -> C = 0 \/ Z = 1
          [] cond = 10 -> N = V
          [] cond = 11 -> N # V
          [] cond = 12 -> Z = 0 /\ N = V
          [] cond = 13 -> Z = 1 \/ N # V

\* The condition field of B<cond>.
CondOf(i) == (Hw1(i) \div 256) % 16

\* C3: after a relative branch (B<cond> T1 whose condition holds, B T2, BL)
\* with signed byte offset `offset` is executed at PC = pc, the PC is
\* (Align(pc, 2) + 4 + offset) mod 2^32.
C3_RelativeBranchTarget ==
    (/\ hist # <<>>
     /\ Last.call = "execute"
     /\ \/ IsBCond(Last.instr0) /\ ConditionHolds(CondOf(Last.instr0), Last.regs0[16])
        \/ IsB(Last.instr0)
        \/ IsBL(Last.instr0))
        => Last.regs1[15] = Plus(Plus(ClearBit0(Last.regs0[15]), 4), BranchOffset(Last.instr0))

C5_LinkAndRegisterBranch ==
    (hist # <<>> /\ Last.call = "execute") =>
        /\ IsBL(Last.instr0) => Last.regs1[14] = SetBit0(Plus(Last.regs0[15], 4))
        /\ IsBLX(Last.instr0) => Last.regs1[14] = SetBit0(Plus(Last.regs0[15], 2))
        /\ (IsBX(Last.instr0) \/ IsBLX(Last.instr0)) =>
               Last.regs1[15] = ClearBit0(Last.regs0[(Hw1(Last.instr0) \div 8) % 16])
        /\ IsBX(Last.instr0) => Last.regs1[14] = Last.regs0[14]

\* ------------------------------------------------------------------------
\* CMP Rn, #imm8 on r0 and r3 holding any two of six words.
\* ------------------------------------------------------------------------
CompareWords ==
    {IntBits(0, 32), IntBits(1, 32), IntBits(5, 32), IntBits(255, 32),
     IntBits(-1, 32), Tuple([i \in 1..32 |-> IF i = 32 THEN 1 ELSE 0])}

\* cmp r0, #imm8 and cmp r3, #imm8
CompareCodes == {Halfword(10240 + 256 * n + imm8) : n \in {0, 3}, imm8 \in {0, 1, 5, 255}}

InitCompare ==
    \E a \in CompareWords, b \in CompareWords :
        Fresh(SetRegisters(MockCpuModelDelegate_regs,
                           << <<0, a>>, <<3, b>>, <<CORE_REGISTER.pc, IntBits(32768, 32)>> >>),
              <<>>)

NextCompare == DecodeFirst(CompareCodes) \/ Execute

SpecCompare == InitCompare /\ [][NextCompare]_vars

IsCmpImm(i) == ~i.is32bit /\ Hw1(i) \div 2048 = 5

\* a - b mod 2^32
Minus(a, b) == AddBits(a, Tuple([i \in 1..32 |-> 1 - b[i]]), 1)

\* C6: after CMP Rn, #imm8 with R[n] = a and immediate b: Z = 1 iff a = b,
\* N = bit 31 of (a - b) mod 2^32, C = 1 iff a >= b unsigned, V = 1 iff the
\* signed subtraction overflows; no general-purpose register changes and the
\* PC advances by 2.
C6_CompareFlags ==
    (hist # <<>> /\ Last.call = "execute" /\ IsCmpImm(Last.instr0)) =>
        LET a == Last.regs0[(Hw1(Last.instr0) \div 256) % 8]
            b == IntBits(Hw1(Last.instr0) % 256, 32)
            d == Minus(a, b)
            x == Last.regs1[16]
        IN  /\ (x[Z_BIT + 1] = 1) <=> (a = b)
            /\ x[N_BIT + 1] = d[32]
            /\ (x[C_BIT + 1] = 1) <=> ~LessBits(a, b)
            /\ (x[V_BIT + 1] = 1) <=> (a[32] # b[32] /\ d[32] # a[32])
            /\ \A k \in 0..14 : Last.regs1[k] = Last.regs0[k]
            /\ Last.regs1[15] = Plus(Last.regs0[15], 2)

\* ------------------------------------------------------------------------
\* PUSH and POP: a client pushes a register list, overwrites registers of the
\* list, and pops the same list (with PC for LR).
\* ------------------------------------------------------------------------
\* Most register writes a client makes between the push and the pop.
MaxWrites == 1

\* The register lists pushed: of r0, r4, r7 and LR, and the whole of r0-r7
\* and LR; the empty list is among them.
PushLists == (SUBSET {0, 4, 7, 14}) \cup {(0..7) \cup {14}}

\* reglist(8) of a list, and its encodings PUSH (T1) and POP (T1).
Reglist(L) == ToNat(Tuple([k \in 1..8 |-> IF k - 1 \in L THEN 1 ELSE 0]))

PushCode(L) == Halfword(46080 + (IF 14 \in L THEN 256 ELSE 0) + Reglist(L))

PopCode(L) == Halfword(48128 + (IF 14 \in L THEN 256 ELSE 0) + Reglist(L))

\* The registers 0..14 of the registers attribute of a Push or Pop.
Listed(registers) == {k \in 0..14 : registers[k + 1] = 1}

\* One range of 40 bytes at 0x20000000 with the SP at its end; register k
\* holds 17 * k + 4352, LR an even or an odd address.
InitPushPop ==
    \E lr \in {IntBits(34, 32), IntBits(32773, 32)} :
        Fresh(SetRegisters(MockCpuModelDelegate_regs,
                           [k \in 1..13 |-> <<k - 1, IntBits(17 * (k - 1) + 4352, 32)>>]
                               \o << <<CORE_REGISTER.sp, IntBits(536870912 + 40, 32)>>,
                                     <<CORE_REGISTER.lr, lr>>,
                                     <<CORE_REGISTER.pc, IntBits(32768, 32)>> >>),
              add_memory(<<>>, 536870912, 40))

\* After the push ran: a write of a register of the list.
Overwrite ==
    \E reg \in 0..14 :
        /\ instr.class = "Push"
        /\ Last.call # "decode"
        /\ reg \in Listed(instr.registers)
        /\ Cardinality({k \in 1..Len(hist) : hist[k].call = "write_register"}) < MaxWrites
        /\ WriteRegister(reg, IntBits(1515870811, 32))

\* After the push ran: decode of the POP of the list pushed.
DecodePop ==
    /\ instr.class = "Push"
    /\ Last.call # "decode"
    /\ Decode(PopCode(Listed(instr.registers)))

NextPushPop ==
    \/ \E L \in PushLists : hist = <<>> /\ Decode(PushCode(L))
    \/ Execute
    \/ Overwrite
    \/ DecodePop

SpecPushPop == InitPushPop /\ [][NextPushPop]_vars

IsPush(i) == ~i.is32bit /\ Hw1(i) \div 512 = 90

IsPop(i) == ~i.is32bit /\ Hw1(i) \div 512 = 94

\* The list of a PUSH or POP (T1): r0-r7 of reglist, and LR (for POP, PC) as 14.
ListOf(i) ==
    {k \in 0..7 : (Hw1(i) \div Pow2(k)) % 2 = 1}
        \cup (IF (Hw1(i) \div 256) % 2 = 1 THEN {14} ELSE {})

\* hist is: decode, PUSH L, writes of registers of L, decode, POP L.
PushedAndPopped ==
    /\ Len(hist) >= 4
    /\ hist[1].call = "decode"
    /\ hist[2].call = "execute" /\ IsPush(hist[2].instr0)
    /\ \A k \in 3..(Len(hist) - 2) :
           hist[k].call = "write_register" /\ hist[k].data[1] \in ListOf(hist[2].instr0)
    /\ hist[Len(hist) - 1].call = "decode"
    /\ Last.call = "execute" /\ IsPop(Last.instr0)
    /\ ListOf(Last.instr0) = ListOf(hist[2].instr0)

\* SP is word-aligned and the n bytes below it lie inside one range of m.
StackMapped(m, sp, n) ==
    /\ sp[1] = 0 /\ sp[2] = 0
    /\ \E j \in 1..Len(m) : m[j].start <= ToNat(sp) - n /\ ToNat(sp) - 1 <= m[j].end

\* C2: PUSH L and then POP of the same list (PC in place of LR), for L a
\* non-empty list from r0-r7 and LR, SP word-aligned with the 4 * |L| bytes
\* below it in one mapped range, and registers of L overwritten in between,
\* restores every general register of L, loads the PC from the pushed LR
\* slot (bit 0 apart, which POP's interworking decides) and leaves SP as it
\* was before the PUSH.
C2_PushPopRoundTrip ==
    (/\ PushedAndPopped
     /\ ListOf(hist[2].instr0) # {}
     /\ StackMapped(hist[2].mem0, hist[2].regs0[13], 4 * Cardinality(ListOf(hist[2].instr0))))
        => /\ \A r \in ListOf(hist[2].instr0) \ {14} : Last.regs1[r] = hist[2].regs0[r]
           /\ 14 \in ListOf(hist[2].instr0) =>
                  SubSeq(Last.regs1[15], 2, 32) = SubSeq(hist[2].regs0[14], 2, 32)
           /\ Last.regs1[13] = hist[2].regs0[13]

\* push {r0, r7, lr}, a write of r7, pop {r0, r7, pc}.
C2_Witness ==
    /\ PushedAndPopped
    /\ Len(hist) = 5
    /\ ListOf(hist[2].instr0) = {0, 7, 14}
    /\ hist[3].data[1] = 7
    /\ hist[3].regs1[7] # hist[2].regs0[7]
    /\ Last.regs1[7] = hist[2].regs0[7]
    /\ Last.exc = None

\* The word of memory m at address a.
WordAt(m, a) == MockCpuModelDelegate_read_memory(m, a, 32).v

\* C7: POP with register 15 in the list sets the PC to the word of PC's stack
\* slot with bit 0 cleared, whatever the word.
C7_PopPcBit0Cleared ==
    (hist # <<>> /\ Last.call = "execute" /\ IsPop(Last.instr0) /\ 14 \in ListOf(Last.instr0)) =>
        Last.regs1[15] =
            ClearBit0(WordAt(Last.mem0,
                             Plus(Last.regs0[13], 4 * (Cardinality(ListOf(Last.instr0)) - 1))))

\* ------------------------------------------------------------------------
\* STM and LDM (T1 and T2) with base r0 or r1 over a range of 32 bytes.
\* ------------------------------------------------------------------------
\* Bit k of the 16-bit register mask of a set of registers.
Mask16(L) == ToNat(Tuple([k \in 1..16 |-> IF k - 1 \in L THEN 1 ELSE 0]))

\* stm/ldm Rn!, {list} (T1) and stm.w/ldm.w Rn{!}, {list} (T2)
MultipleCodes ==
    {Halfword(49152 + 2048 * ld + 256 * n + Mask16(L)) :
         ld \in Bit, n \in {0, 1}, L \in SUBSET {0, 1, 2, 5}}
        \cup {Halfwords(59520 + 32 * W + n, Mask16(L)) :
                  W \in Bit, n \in {0, 1}, L \in SUBSET {1, 2, 8, 14}}
        \cup {Halfwords(59536 + 32 * W + n, Mask16(L)) :
                  W \in Bit, n \in {0, 1}, L \in SUBSET {1, 2, 8, 14, 15}}

\* A range of 32 bytes at 0x20000000 holding the bytes 10, 17, 24, ...; r0 is
\* its start or an address no range holds, r1 eight bytes on, register k
\* 19 * k + 8192.
InitMultiple ==
    \E A \in {536870912, 805306368} :
        Fresh(SetRegisters(MockCpuModelDelegate_regs,
                           [k \in 1..15 |-> <<k - 1, IntBits(19 * (k - 1) + 8192, 32)>>]
                               \o << <<0, IntBits(A, 32)>>, <<1, IntBits(A + 8, 32)>>,
                                     <<CORE_REGISTER.pc, IntBits(32768, 32)>> >>),
              <<[start |-> 536870912, end |-> 536870912 + 31,
                 data |-> Tuple([k \in 1..32 |-> (7 * k + 3) % 256])]>>)

NextMultiple == DecodeFirst(MultipleCodes) \/ Execute

SpecMultiple == InitMultiple /\ [][NextMultiple]_vars

IsMultipleT1(i) == ~i.is32bit /\ Hw1(i) \div 4096 = 12

IsMultipleT2(i) == i.is32bit /\ Hw1(i) \div 64 = 930 /\ (Hw1(i) % 16) # 13

IsMultiple(i) == IsMultipleT1(i) \/ IsMultipleT2(i)

\* The fields of the encoding: load or store, the base register, the list,
\* and whether write-back is enabled.
MultipleLoads(i) ==
    IF i.is32bit THEN (Hw1(i) \div 16) % 2 = 1 ELSE (Hw1(i) \div 2048) % 2 = 1

MultipleBase(i) == IF i.is32bit THEN Hw1(i) % 16 ELSE (Hw1(i) \div 256) % 8

MultipleList(i) ==
    IF i.is32bit THEN {k \in 0..15 : (Hw2(i) \div Pow2(k)) % 2 = 1}
    ELSE {k \in 0..7 : (Hw1(i) \div Pow2(k)) % 2 = 1}

MultipleWriteBack(i) ==
    IF i.is32bit THEN (Hw1(i) \div 32) % 2 = 1
    ELSE ~MultipleLoads(i) \/ MultipleBase(i) \notin MultipleList(i)

\* The registers of a set, lowest first.
RECURSIVE Ascending(_)
Ascending(S) ==
    IF S = {} THEN <<>>
    ELSE LET lo == CHOOSE x \in S : \A y \in S : x <= y
         IN  <<lo>> \o Ascending(S \ {lo})

\* C8: STM and LDM with base register n and list L store / load the k-th
\* lowest-numbered register of L at address A + 4k, A the value of R[n] before
\* the instruction, and with write-back enabled (for LDM, n not in L) R[n] is
\* A + 4 * popcount(L) afterwards.
C8_MultipleAddresses ==
    (hist # <<>> /\ Last.call = "execute" /\ IsMultiple(Last.instr0)) =>
        LET i  == Last.instr0
            n  == MultipleBase(i)
            rs == Ascending(MultipleList(i))
            A  == Last.regs0[n]
        IN  /\ Last.exc = None
            /\ Len(Last.acc) = Len(rs)
            /\ \A k \in 1..Len(rs) :
                   /\ Last.acc[k].addr = Plus(A, 4 * (k - 1))
                   /\ Last.acc[k].size = 32
                   /\ IF MultipleLoads(i)
                      THEN /\ Last.acc[k].op = "read"
                           /\ Last.acc[k].value = WordAt(Last.mem0, Last.acc[k].addr)
                           /\ rs[k] # 15 => Last.regs1[rs[k]] = Last.acc[k].value
                      ELSE /\ Last.acc[k].op = "write"
                           /\ Last.acc[k].value = Last.regs0[rs[k]]
                           /\ WordAt(Last.mem1, Last.acc[k].addr) \in
                                  {Last.regs0[rs[k]], WordAt(Last.mem0, Last.acc[k].addr)}
            /\ (MultipleWriteBack(i) /\ ~(MultipleLoads(i) /\ n \in MultipleList(i))) =>
                   Last.regs1[n] = Plus(A, 4 * Len(rs))

\* ldm.w r0!, {r1, r2, r8, pc} ran: r8 holds the third word of the range and
\* r0 is 16 higher.
C8_Witness ==
    /\ hist # <<>>
    /\ Last.call = "execute"
    /\ IsMultipleT2(Last.instr0) /\ MultipleLoads(Last.instr0)
    /\ MultipleList(Last.instr0) = {1, 2, 8, 15}
    /\ MultipleBase(Last.instr0) = 0 /\ MultipleWriteBack(Last.instr0)
    /\ Last.regs1[8] = IntBits(66 + 256 * (73 + 256 * (80 + 256 * 87)), 32)
    /\ Last.regs1[0] = Plus(Last.regs0[0], 16)

\* ------------------------------------------------------------------------
\* Loads and stores of bytes, halfwords and words: register offset (T1, T2),
\* immediate offset (T1) and SP-relative (T2 of LDR/STR immediate).
\* ------------------------------------------------------------------------
\* opc of the register form (T1): str, strh, strb, ldrsb, ldr, ldrh, ldrb, ldrsh
\* of Rt, [Rn, Rm] for <<Rm, Rn, Rt>> = <<1, 0, 2>> and <<1, 0, 0>>; the
\* immediate forms with imm5 0, 1, 3; str/ldr r2, [sp, #0 / #8]; the register
\* forms of T2 on r9, [r0, r1, lsl #0 / #1].
LoadStoreCodes ==
    {Halfword(20480 + 512 * opc + 64 * 1 + 8 * 0 + t) : opc \in 0..7, t \in {0, 2}}
        \cup {Halfword(24576 + 4096 * B + 2048 * L + 64 * imm5 + 2) :
                  B \in Bit, L \in Bit, imm5 \in {0, 1, 3}}
        \cup {Halfword(32768 + 2048 * L + 64 * imm5 + 2) : L \in Bit, imm5 \in {0, 1, 3}}
        \cup {Halfword(36864 + 2048 * L + 256 * 2 + imm8) : L \in Bit, imm8 \in {0, 2}}
        \cup {Halfwords(63488 + 256 * sl[1] + 32 * sl[2] + 16 * sl[3], 4096 * 9 + 16 * imm2 + 1) :
                  sl \in {<<0, 0, 1>>, <<0, 1, 1>>, <<0, 2, 1>>, <<1, 0, 1>>, <<1, 1, 1>>,
                          <<0, 0, 0>>, <<0, 1, 0>>, <<0, 2, 0>>},
                  imm2 \in Bit}

\* A range of 32 bytes at 0x20000000 holding the bytes 138, 175, 212, ...;
\* r0 points 4 bytes into it, the SP 8 bytes, r1 is the offset 1 or 4, and r2
\* and r9 hold the word to store: 0x81c2f3a4 or 0x01420324.
InitLoadStore ==
    \E v \in {IntBits(-2117930076, 32), IntBits(21103396, 32)}, off \in {1, 4} :
        Fresh(SetRegisters(MockCpuModelDelegate_regs,
                           << <<0, IntBits(536870912 + 4, 32)>>, <<1, IntBits(off, 32)>>,
                              <<2, v>>, <<9, v>>,
                              <<CORE_REGISTER.sp, IntBits(536870912 + 8, 32)>>,
                              <<CORE_REGISTER.pc, IntBits(32768, 32)>> >>),
              <<[start |-> 536870912, end |-> 536870912 + 31,
                 data |-> Tuple([k \in 1..32 |-> (37 * k + 101) % 256])]>>)

NextLoadStore == DecodeFirst(LoadStoreCodes) \/ Execute

SpecLoadStore == InitLoadStore /\ [][NextLoadStore]_vars

\* The encodings, read from the instruction word.
IsRegT1(i) == ~i.is32bit /\ Hw1(i) \div 4096 = 5

IsImmT1(i) == ~i.is32bit /\ (Hw1(i) \div 8192 = 3 \/ Hw1(i) \div 4096 = 8)

IsSpRel(i) == ~i.is32bit /\ Hw1(i) \div 4096 = 9

IsRegT2(i) == i.is32bit /\ Hw1(i) \div 512 = 124 /\ (Hw2(i) \div 64) % 64 = 0

IsLoadStore(i) == IsRegT1(i) \/ IsImmT1(i) \/ IsSpRel(i) \/ IsRegT2(i)

\* Is it a load, the width of the memory access, is the load signed, and Rt.
LoadsOf(i) ==
    IF IsRegT1(i) THEN (Hw1(i) \div 512) % 8 >= 3
    ELSE IF IsRegT2(i) THEN (Hw1(i) \div 16) % 2 = 1
    ELSE (Hw1(i) \div 2048) % 2 = 1

WidthOf(i) ==
    IF IsRegT1(i) THEN <<32, 16, 8, 8, 32, 16, 8, 16>>[((Hw1(i) \div 512) % 8) + 1]
    ELSE IF IsRegT2(i) THEN <<8, 16, 32>>[((Hw1(i) \div 32) % 4) + 1]
    ELSE IF IsSpRel(i) THEN 32
    ELSE IF Hw1(i) \div 4096 = 8 THEN 16
    ELSE IF (Hw1(i) \div 4096) % 2 = 1 THEN 8 ELSE 32

SignedOf(i) ==
    IF IsRegT1(i) THEN (Hw1(i) \div 512) % 8 \in {3, 7}
    ELSE IF IsRegT2(i) THEN (Hw1(i) \div 256) % 2 = 1
    ELSE FALSE

RtOf(i) ==
    IF IsRegT2(i) THEN Hw2(i) \div 4096
    ELSE IF IsSpRel(i) THEN (Hw1(i) \div 256) % 8
    ELSE Hw1(i) % 8

\* The effective address on the registers r: Rn + Rm, Rn + (Rm << imm2),
\* Rn + imm5 * (width / 8), SP + imm8 * 4.
EffectiveAddress(i, r) ==
    IF IsRegT1(i) THEN AddBits(r[(Hw1(i) \div 8) % 8], r[(Hw1(i) \div 64) % 8], 0)
    ELSE IF IsRegT2(i)
        THEN AddBits(r[Hw1(i) % 16], lshift(r[Hw2(i) % 16], (Hw2(i) \div 16) % 4), 0)
    ELSE IF IsSpRel(i) THEN Plus(r[13], 4 * (Hw1(i) % 256))
    ELSE Plus(r[(Hw1(i) \div 8) % 8], ((Hw1(i) \div 64) % 32) * (WidthOf(i) \div 8))

\* The n bytes from address a on lie in one range of m.
Mapped(m, a, n) ==
    \E j \in 1..Len(m) :
        /\ LeqBits(IntBits(m[j].start, 32), a)
        /\ LeqBits(Plus(a, n - 1), IntBits(m[j].end, 32))
        /\ LeqBits(a, Plus(a, n - 1))

\* The byte of m at a mapped address a, as 8 bits.
ByteAt(m, a) == IntBits(m[find_mem(m, a).mem].data[find_mem(m, a).offset + 1], 8)

\* The little-endian value of the n bytes of m from address a on.
RECURSIVE LittleEndian(_, _, _)
LittleEndian(m, a, n) ==
    IF n = 0 THEN <<>> ELSE ByteAt(m, a) \o LittleEndian(m, Plus(a, 1), n - 1)

\* The addresses of the n bytes from a on.
Window(a, n) == {Plus(a, k) : k \in 0..(n - 1)}

\* Every byte of every range of m1 outside the addresses W is as in m0, and
\* the ranges are the same.
SameOutside(m0, m1, W) ==
    /\ Len(m1) = Len(m0)
    /\ \A j \in 1..Len(m0) :
           /\ m1[j].start = m0[j].start /\ m1[j].end = m0[j].end
           /\ Len(m1[j].data) = Len(m0[j].data)
           /\ \A b \in 1..Len(m0[j].data) :
                  IntBits(m0[j].start + b - 1, 32) \notin W => m1[j].data[b] = m0[j].data[b]

\* C9: for the widths 8, 16 and 32, with the bytes at the effective address
\* inside one mapped range: a store writes the low memsize bits of R[t] to the
\* memsize / 8 bytes at the effective address and changes no other byte; a
\* signed load sets R[t] to the sign-extension, an unsigned load to the
\* zero-extension, of the memsize-bit little-endian value at that address.
C9_LoadStoreWidth ==
    (/\ hist # <<>>
     /\ Last.call = "execute"
     /\ IsLoadStore(Last.instr0)
     /\ Mapped(Last.mem0, EffectiveAddress(Last.instr0, Last.regs0),
               WidthOf(Last.instr0) \div 8)) =>
        LET i  == Last.instr0
            w  == WidthOf(i)
            ea == EffectiveAddress(i, Last.regs0)
            v  == LittleEndian(Last.mem0, ea, w \div 8)
        IN  /\ Last.exc = None
            /\ IF LoadsOf(i)
               THEN /\ Last.regs1[RtOf(i)] =
                           Tuple([k \in 1..32 |-> IF k <= w THEN v[k]
                                                  ELSE IF SignedOf(i) THEN v[w] ELSE 0])
                    /\ Last.mem1 = Last.mem0
               ELSE /\ LittleEndian(Last.mem1, ea, w \div 8) = SubSeq(Last.regs0[RtOf(i)], 1, w)
                    /\ SameOutside(Last.mem0, Last.mem1, Window(ea, w \div 8))

\* strh r2, [r0, r1] with r1 = 1 stored the halfword 0xf3a4 at 0x20000005 and
\* left the byte after it alone.
C9_Witness ==
    /\ hist # <<>>
    /\ Last.call = "execute"
    /\ IsRegT1(Last.instr0) /\ ~LoadsOf(Last.instr0) /\ WidthOf(Last.instr0) = 16
    /\ Last.regs0[1] = IntBits(1, 32)
    /\ Last.mem0[1].data[6] # 164
    /\ Last.mem1[1].data[6] = 164 /\ Last.mem1[1].data[7] = 243
    /\ Last.mem1[1].data[8] = Last.mem0[1].data[8]

\* ------------------------------------------------------------------------
\* decode on byte strings of 2, 3 and 4 bytes.
\* ------------------------------------------------------------------------
\* First halfwords of 16-bit encodings (high byte, low byte), among them
\* 0xe0.. and 0xe7.., the 16-bit neighbours of the 32-bit class.
First16 ==
    {256 * hi + lo : hi \in {40, 71, 80, 96, 136, 144, 177, 180, 183, 188, 190, 191, 192,
                             208, 222, 223, 224, 231},
                     lo \in {0, 24, 255}}

\* First and second halfwords of 32-bit encodings.
First32 == {59520, 59536, 59581, 59392, 61440, 61441, 63487, 63488, 63504, 63761, 65535}

Second32 == {0, 6, 4098, 32774, 65455, 53248, 63488, 65532, 65535}

\* What a client hands to decode: a first halfword alone, with one more byte,
\* and with a second halfword.
DecodeInputs ==
    {Halfword(hw) : hw \in First16 \cup First32}
        \cup {Halfword(hw) \o <<b>> : hw \in First16 \cup First32, b \in {0, 255}}
        \cup {Halfwords(hw1, hw2) : hw1 \in First16 \cup First32, hw2 \in Second32}

InitDecode == Fresh(MockCpuModelDelegate_regs, <<>>)

NextDecode == DecodeFirst(DecodeInputs)

SpecDecode == InitDecode /\ [][NextDecode]_vars

\* The first halfword of a byte string and whether hw & 0xF800 is one of
\* 0xE800, 0xF000, 0xF800.
FirstHalfword(data) == data[1] + 256 * data[2]

Class32(hw) == hw \div 2048 \in {29, 30, 31}

\* C10: decode treats a first halfword hw as the start of a 32-bit instruction
\* (reads the second halfword, returns an instruction of size 4) iff
\* hw & 0xF800 is 0xE800, 0xF000 or 0xF800, and otherwise returns only
\* instructions of size 2; with hw in the 32-bit class and fewer than 4 bytes
\* it raises UndefinedInstruction and returns no instruction.
C10_ThirtyTwoBitClass ==
    (hist # <<>> /\ Last.call = "decode") =>
        LET hw == FirstHalfword(Last.data)
        IN  /\ Last.exc = None =>
                   /\ Hw1(Last.instr1) = hw
                   /\ IF Class32(hw)
                      THEN /\ size(Last.instr1) = 4
                           /\ Hw2(Last.instr1) = Last.data[3] + 256 * Last.data[4]
                      ELSE /\ size(Last.instr1) = 2
                           /\ Hw2(Last.instr1) = 0
            /\ (Class32(hw) /\ Len(Last.data) < 4) =>
                   /\ Last.exc = "UndefinedInstructionError"
                   /\ Last.instr1 = Last.instr0

\* ldm.w r0, {r1, r2} was decoded from 4 bytes to an instruction of size 4.
C10_Witness ==
    /\ hist # <<>>
    /\ Last.call = "decode"
    /\ Last.data = Halfwords(59536, 6)
    /\ Last.exc = None
    /\ size(Last.instr1) = 4
    /\ Last.instr1.mnemonic = "ldm.w"

\* ------------------------------------------------------------------------
\* decode on the 16-bit words 1101 cond imm8.
\* ------------------------------------------------------------------------
CondCodes ==
    {Halfword(53248 + 256 * cond + imm8) :
         cond \in 0..15, imm8 \in {0, 1, 24, 127, 128, 200, 254, 255}}

InitCond == Fresh(MockCpuModelDelegate_regs, <<>>)

NextCond == DecodeFirst(CondCodes)

SpecCond == InitCond /\ [][NextCond]_vars

\* C11: of the 16-bit words 1101 cond imm8, cond = 1110 decodes to udf and
\* cond = 1111 to svc; the conditional branch is what decode returns only for
\* cond in 0000..1101, so no word with cond = 1110 is decoded as a branch.
C11_ReservedCondition ==
    (hist # <<>> /\ Last.call = "decode" /\ FirstHalfword(Last.data) \div 4096 = 13) =>
        LET cond == (FirstHalfword(Last.data) \div 256) % 16
        IN  /\ Last.exc = None
            /\ cond = 14 => Last.instr1.class = "Instruction" /\ Last.instr1.mnemonic = "udf"
            /\ cond = 15 => Last.instr1.class = "Instruction" /\ Last.instr1.mnemonic = "svc"
            /\ Last.instr1.class = "Branch" <=> cond <= 13
            /\ cond <= 13 => Last.instr1.cond = ConditionInfo(cond)

\* The word 0xde18 was decoded, to udf with the immediate 0x18.
C11_Witness ==
    /\ hist # <<>>
    /\ Last.call = "decode"
    /\ Last.data = Halfword(56856)
    /\ Last.exc = None
    /\ Last.instr1.mnemonic = "udf"
    /\ Last.instr1.imm32 = IntBits(24, 32)

\* ------------------------------------------------------------------------
\* A client iterates disasm(data, base) over a buffer of whole instructions
\* followed by up to three more bytes.
\* ------------------------------------------------------------------------
\* Most whole instructions in a buffer.
MaxInstrs == 2

\* nop, cmp r0, #1, bl .+0x1f5e, ldm.w r0!, {r1, r2, r8, pc} and the
\* undefined 16-bit word 0xb700.
Chunks == {Halfword(48896), Halfword(10241), Halfwords(61441, 65455),
           Halfwords(59568, 33030), Halfword(46848)}

\* The bytes after the last instruction: none, one byte, the first halfword
\* of a 32-bit instruction alone or with one more byte.
Tails == {<<>>, <<0>>, <<240>>, Halfword(61440), Halfword(61440) \o <<0>>}

RECURSIVE ChunkSeqs(_)
ChunkSeqs(n) ==
    IF n = 0 THEN {<<>>}
    ELSE ChunkSeqs(n - 1) \cup {s \o c : s \in ChunkSeqs(n - 1), c \in Chunks}

Buffers == {s \o t : s \in ChunkSeqs(MaxInstrs), t \in Tails}

InitDisasm ==
    /\ regs = MockCpuModelDelegate_regs
    /\ mem = <<>>
    /\ instr = NoInstruction
    /\ hist = <<>>
    /\ \E data \in Buffers, address \in {0, 256} :
           /\ inp = [fn |-> "disasm", data |-> data, address |-> address]
           /\ call = disasm(data, address)

\* next() on the generator, while it has neither returned nor raised.
NextInstruction ==
    /\ call.state \in {"created", "suspended"}
    /\ call' = disasm_next(call, inp.data, inp.address)
    /\ UNCHANGED <<regs, mem, instr, hist, inp>>

NextDisasm == NextInstruction

SpecDisasm == InitDisasm /\ [][NextDisasm]_vars

\* The size the first halfword at offset off of data asks for, and the
\* offsets of the whole instructions of data from off on: an instruction is
\* whole when data holds all its bytes.
SizeAt(data, off) == IF Class32(data[off + 1] + 256 * data[off + 2]) THEN 4 ELSE 2

RECURSIVE WholeFrom(_, _)
WholeFrom(data, off) ==
    IF Len(data) - off < 2 THEN <<>>
    ELSE IF Len(data) - off < SizeAt(data, off) THEN <<>>
    ELSE <<off>> \o WholeFrom(data, off + SizeAt(data, off))

\* The number of bytes of data after its last whole instruction.
StrayBytes(data) ==
    LET w == WholeFrom(data, 0)
    IN  IF w = <<>> THEN Len(data)
        ELSE Len(data) - (w[Len(w)] + SizeAt(data, w[Len(w)]))

\* Every whole instruction of data decodes.
AllDecode(data) ==
    \A k \in 1..Len(WholeFrom(data, 0)) :
        decode(SubSeq(data, WholeFrom(data, 0)[k] + 1, Len(data)), 0).exc = None

\* C12: over a buffer whose last 1, 2 or 3 bytes, after the last whole
\* instruction, cannot form an instruction, disasm yields every instruction
\* before them and then ends without raising.
C12_StrayBytesIgnored ==
    (/\ inp.fn = "disasm"
     /\ call.state \in {"returned", "raised"}
     /\ StrayBytes(inp.data) \in 1..3
     /\ AllDecode(inp.data)) =>
        /\ call.state = "returned"
        /\ Len(call.yielded) = Len(WholeFrom(inp.data, 0))

\* The sum of the sizes of the first k instructions yielded.
RECURSIVE SizesTo(_, _)
SizesTo(y, k) == IF k = 0 THEN 0 ELSE SizesTo(y, k - 1) + y[k].size

\* C13: over a buffer of n bytes in which every decode succeeds, disasm yields
\* instructions at base, base + s1, base + s1 + s2, ... with every size 2 or 4,
\* each decoded from the bytes at offset address - base, and it ends after at
\* most n / 2 yields when the address has reached base + n.
C13_AddressesAdvanceBySize ==
    (inp.fn = "disasm" /\ call.exc = None /\ ~call.ignored) =>
        LET y == call.yielded
            n == Len(inp.data)
        IN  /\ \A k \in 1..Len(y) :
                   /\ y[k].size \in {2, 4}
                   /\ y[k].address = inp.address + SizesTo(y, k - 1)
                   /\ y[k].address - inp.address + y[k].size <= n
                   /\ ToNat(SubSeq(y[k].word, 1, 16)) =
                          inp.data[y[k].address - inp.address + 1]
                              + 256 * inp.data[y[k].address - inp.address + 2]
                   /\ IF y[k].size = 4
                      THEN ToNat(SubSeq(y[k].word, 17, 32)) =
                               inp.data[y[k].address - inp.address + 3]
                                   + 256 * inp.data[y[k].address - inp.address + 4]
                      ELSE y[k].size = SizeAt(inp.data, y[k].address - inp.address)
            /\ 2 * Len(y) <= n
            /\ call.state = "returned" => SizesTo(y, Len(y)) = n
            /\ (call.state = "suspended" /\ SizesTo(y, Len(y)) = n) =>
                   disasm_next(call, inp.data, inp.address).state = "returned"

\* nop and bl were yielded from a buffer of six bytes at 0x100, and the
\* generator returned.
C13_Witness ==
    /\ inp.fn = "disasm"
    /\ inp.address = 256
    /\ inp.data = Halfword(48896) \o Halfwords(61441, 65455)
    /\ call.state = "returned"
    /\ Len(call.yielded) = 2
    /\ call.yielded[1].mnemonic = "nop" /\ call.yielded[1].address = 256
    /\ call.yielded[2].mnemonic = "bl" /\ call.yielded[2].address = 258

\* ------------------------------------------------------------------------
\* Register writes: a client writes words to SP, MSP, PSP, CONTROL and the
\* priority mask registers of a new CPU.
\* ------------------------------------------------------------------------
\* Most register writes a client makes.
MaxRegWrites == 2

SpecialRegisters ==
    {CORE_REGISTER.sp, CORE_REGISTER.msp, CORE_REGISTER.psp, CORE_REGISTER.control,
     CORE_REGISTER.primask, CORE_REGISTER.faultmask, CORE_REGISTER.basepri}

\* 0, 2 (SPSEL alone), 0xffffffff and 0x20001003
WrittenWords == {IntBits(0, 32), IntBits(2, 32), IntBits(-1, 32), IntBits(536875011, 32)}

InitRegisters == Fresh(MockCpuModelDelegate_regs, <<>>)

WriteSpecial ==
    \E reg \in SpecialRegisters, v \in WrittenWords :
        /\ Len(hist) < MaxRegWrites
        /\ WriteRegister(reg, v)

NextRegisters == WriteSpecial

SpecRegisters == InitRegisters /\ [][NextRegisters]_vars

\* C14: a write to register 13 also sets PSP when CONTROL bit 1 (SPSEL) is 1
\* and MSP when it is 0, and leaves the other of the two alone; a write to MSP
\* (to PSP) is copied to register 13 iff SPSEL is 0 (is 1).
C14_StackPointerMirror ==
    (hist # <<>> /\ Last.call = "write_register") =>
        LET reg   == Last.data[1]
            spsel == Last.regs0[CORE_REGISTER.control][2]
            msp   == CORE_REGISTER.msp
            psp   == CORE_REGISTER.psp
        IN  /\ reg = CORE_REGISTER.sp =>
                   IF spsel = 1
                   THEN Last.regs1[psp] = Last.regs1[13] /\ Last.regs1[msp] = Last.regs0[msp]
                   ELSE Last.regs1[msp] = Last.regs1[13] /\ Last.regs1[psp] = Last.regs0[psp]
            /\ reg = msp =>
                   Last.regs1[13] = (IF spsel = 0 THEN Last.regs1[msp] ELSE Last.regs0[13])
            /\ reg = psp =>
                   Last.regs1[13] = (IF spsel = 1 THEN Last.regs1[psp] ELSE Last.regs0[13])

\* C15: after any register writes PRIMASK and FAULTMASK are 0 or 1, BASEPRI
\* is at most 255, and SP, MSP and PSP have bits 1 and 0 clear.
C15_RegisterRestrictions ==
    /\ \A k \in 2..32 : regs[CORE_REGISTER.primask][k] = 0 /\ regs[CORE_REGISTER.faultmask][k] = 0
    /\ \A k \in 9..32 : regs[CORE_REGISTER.basepri][k] = 0
    /\ \A reg \in {CORE_REGISTER.sp, CORE_REGISTER.msp, CORE_REGISTER.psp} :
           regs[reg][1] = 0 /\ regs[reg][2] = 0

\* 0xffffffff was written to PSP and then to BASEPRI: PSP is 0xfffffffc and
\* BASEPRI 0xff.
C15_Witness ==
    /\ Len(hist) = 2
    /\ hist[1].call = "write_register" /\ hist[1].data[1] = CORE_REGISTER.psp
    /\ hist[2].call = "write_register" /\ hist[2].data[1] = CORE_REGISTER.basepri
    /\ regs[CORE_REGISTER.psp] = IntBits(-4, 32)
    /\ regs[CORE_REGISTER.basepri] = IntBits(255, 32)

\* ------------------------------------------------------------------------
\* Memory accesses: a client of a CPU with one 6-byte range at 0x20000000
\* writes values of 8, 16 and 32 bits and then reads one back, at addresses
\* inside the range, within its last bytes and after its end.
\* ------------------------------------------------------------------------
\* Most memory writes a client makes before its read.
MaxStores == 1

\* 0x20000000 + {0, 1, 3, 4, 5} in the range, 0x20000006 in no range
AccessAddresses == {IntBits(536870912 + k, 32) : k \in {0, 1, 3, 4, 5, 6}}

AccessSizes == {8, 16, 32}

\* 0xa4 and 0x81c2f3a4
StoredValues == {IntBits(164, 32), IntBits(-2117930076, 32)}

InitMemory == Fresh(MockCpuModelDelegate_regs, add_memory(<<>>, 536870912, 6))

\* The state after a memory access that gave the cpu c.
Accessed(name, data, c) ==
    /\ mem' = c.mem
    /\ hist' = Append(hist, [call |-> name, data |-> data, exc |-> c.exc,
                             acc |-> c.acc, instr0 |-> instr, instr1 |-> instr,
                             regs0 |-> regs, mem0 |-> mem, regs1 |-> regs, mem1 |-> c.mem])
    /\ UNCHANGED <<regs, instr, inp, call>>

\* The client has not read yet.
Writing == \A k \in 1..Len(hist) : hist[k].call = "write_memory"

\* cpu.write_memory(addr, value, nbits)
WriteMemory ==
    \E addr \in AccessAddresses, value \in StoredValues, nbits \in AccessSizes :
        /\ Writing
        /\ Len(hist) < MaxStores
        /\ Accessed("write_memory", <<addr, nbits, value>>,
                    CpuModel_write_memory(Cpu(regs, mem), addr, value, nbits))

\* cpu.read_memory(addr, nbits)
ReadMemory ==
    \E addr \in AccessAddresses, nbits \in AccessSizes :
        /\ Writing
        /\ Accessed("read_memory", <<addr, nbits>>,
                    CpuModel_read_memory(Cpu(regs, mem), addr, nbits).c)

NextMemory == WriteMemory \/ ReadMemory

SpecMemory == InitMemory /\ [][NextMemory]_vars

IsAccess(e) == e.call \in {"read_memory", "write_memory"}

\* The value a read returned.
ReadValue(e) == e.acc[1].value

\* C16: no read_memory or write_memory of 8, 16 or 32 bits raises, at any
\* address; a read at an address in no range returns 0 and a write at an
\* address in no range changes no range.
C16_AccessesNeverFail ==
    (hist # <<>> /\ IsAccess(Last)) =>
        /\ Last.exc = None
        /\ (Last.call = "read_memory" /\ ~Mapped(Last.mem0, Last.data[1], 1)) =>
               ReadValue(Last) = zeros(Last.data[2])
        /\ (Last.call = "write_memory" /\ ~Mapped(Last.mem0, Last.data[1], 1)) =>
               Last.mem1 = Last.mem0

\* C17: a write of v with nbits bits at an address whose nbits / 8 bytes lie in
\* one range stores bits 8i .. 8i+7 of v in byte a + i and changes no other
\* byte, and a read of as many or fewer bits at the same address that follows
\* returns v mod 2^bits.
C17_WriteThenRead ==
    \A k \in 1..Len(hist) :
        (hist[k].call = "write_memory"
            /\ Mapped(hist[k].mem0, hist[k].data[1], hist[k].data[2] \div 8)) =>
            LET a    == hist[k].data[1]
                nbits == hist[k].data[2]
                v    == hist[k].data[3]
            IN  /\ hist[k].exc = None
                /\ LittleEndian(hist[k].mem1, a, nbits \div 8) = SubSeq(v, 1, nbits)
                /\ SameOutside(hist[k].mem0, hist[k].mem1, Window(a, nbits \div 8))
                /\ (k < Len(hist) /\ hist[k + 1].call = "read_memory"
                      /\ hist[k + 1].data[1] = a /\ hist[k + 1].data[2] <= nbits) =>
                       /\ hist[k + 1].exc = None
                       /\ ReadValue(hist[k + 1]) = SubSeq(v, 1, hist[k + 1].data[2])

\* ------------------------------------------------------------------------
\* APSR flags: a client writes xPSR and assigns single flags through
\* cpu.apsr.
\* ------------------------------------------------------------------------
\* 0xf10001ff, 0xa0000000, 0x01000000 and 0x50000003
XpsrWords ==
    {IntBits(-251657729, 32), IntBits(-1610612736, 32), IntBits(16777216, 32),
     IntBits(1342177283, 32)}

FlagBits == {N_BIT, Z_BIT, C_BIT, V_BIT}

InitApsr == Fresh(MockCpuModelDelegate_regs, <<>>)

\* cpu.xpsr = v
WriteXpsr ==
    \E v \in XpsrWords :
        /\ Len(hist) < MaxRegWrites
        /\ WriteRegister(CORE_REGISTER.xpsr, v)

\* cpu.apsr.n = b (z, c, v likewise)
SetFlag ==
    \E bitpos \in FlagBits, b \in {bit0, bit1} :
        /\ Len(hist) < MaxRegWrites
        /\ regs' = apsr_set(Cpu(regs, mem), bitpos, b).regs
        /\ hist' = Append(hist, [call |-> "apsr_set", data |-> <<bitpos, b>>, exc |-> None,
                                 acc |-> <<>>, instr0 |-> instr, instr1 |-> instr,
                                 regs0 |-> regs, mem0 |-> mem, regs1 |-> regs', mem1 |-> mem])
        /\ UNCHANGED <<mem, instr, inp, call>>

NextApsr == WriteXpsr \/ SetFlag

SpecApsr == InitApsr /\ [][NextApsr]_vars

\* C18: after apsr.F = b for a flag F of N, Z, C, V, a read of apsr.F gives b
\* and every other bit of xPSR is as before.
C18_FlagAssignment ==
    (hist # <<>> /\ Last.call = "apsr_set") =>
        /\ apsr_get(Cpu(regs, mem), Last.data[1]) = Last.data[2]
        /\ \A k \in 0..31 :
               k # Last.data[1] =>
                   regs[CORE_REGISTER.xpsr][k + 1] = Last.regs0[CORE_REGISTER.xpsr][k + 1]

\* xPSR was set to 0xf10001ff and then apsr.c = 0 was assigned: xPSR is
\* 0xd10001ff.
C18_Witness ==
    /\ Len(hist) = 2
    /\ hist[1].call = "write_register"
    /\ hist[2].call = "apsr_set" /\ hist[2].data = <<C_BIT, bit0>>
    /\ hist[2].regs0[CORE_REGISTER.xpsr] = IntBits(-251657729, 32)
    /\ regs[CORE_REGISTER.xpsr] = IntBits(-788528641, 32)

\* ------------------------------------------------------------------------
\* CPS: a client sets CONTROL, PRIMASK and FAULTMASK, decodes one of the words
\* 1011 0110 011 im 0 0 I F and executes the instruction.
\* ------------------------------------------------------------------------
CpsCodes == {Halfword(46688 + 16 * im + 2 * I_ + F_) : im \in 0..1, I_ \in 0..1, F_ \in 0..1}

InitCps ==
    \E control \in 0..3, primask \in 0..1, faultmask \in 0..1 :
        Fresh(SetRegisters(MockCpuModelDelegate_regs,
                           << <<CORE_REGISTER.control, IntBits(control, 32)>>,
                              <<CORE_REGISTER.primask, IntBits(primask, 32)>>,
                              <<CORE_REGISTER.faultmask, IntBits(faultmask, 32)>>,
                              <<CORE_REGISTER.pc, IntBits(32768, 32)>> >>),
              <<>>)

NextCps == DecodeFirst(CpsCodes) \/ Execute

SpecCps == InitCps /\ [][NextCps]_vars

\* C19: executed on an unprivileged CPU (CONTROL.nPRIV = 1), cpsie and cpsid
\* with any I and F leave PRIMASK and FAULTMASK as they were and only advance
\* the PC.
C19_CpsNeedsPrivilege ==
    (hist # <<>> /\ Last.call = "execute" /\ Last.instr0.class = "ChangeProcessorState"
        /\ ~CpuModel_is_privileged(Cpu(Last.regs0, Last.mem0))) =>
        /\ Last.exc = None
        /\ Last.regs1 = [Last.regs0 EXCEPT ![CORE_REGISTER.pc] = Plus(@, 2)]

\* ------------------------------------------------------------------------
\* Extension: zero_extend and sign_extend of every bitstring of width 1 to
\* MaxWidth to every width from 1 to MaxWidth + 1.
\* ------------------------------------------------------------------------
InitExtend ==
    /\ regs = MockCpuModelDelegate_regs
    /\ mem = <<>>
    /\ instr = NoInstruction
    /\ hist = <<>>
    /\ call = NoCall
    /\ \E n \in 1..MaxWidth : \E b \in BitSeqs(n), width \in 1..(MaxWidth + 1) :
           inp = [fn |-> "extend", b |-> b, width |-> width]

\* The Python ints of the comparisons, as two's complement of this width.
IntWidth == MaxWidth + 3

\* b.zero_extend(width).unsigned == b.unsigned
CallZeroExtend ==
    /\ call = NoCall
    /\ call' = IF extend_error(inp.b, inp.width) # None
               THEN [fn |-> "zero_extend", exc |-> extend_error(inp.b, inp.width)]
               ELSE [fn |-> "zero_extend", exc |-> None,
                     left  |-> unsigned(zero_extend(inp.b, inp.width), IntWidth),
                     right |-> unsigned(inp.b, IntWidth)]
    /\ UNCHANGED <<regs, mem, instr, hist, inp>>

\* b.sign_extend(width).signed == b.signed: the left operand is evaluated
\* first, and with width = b.width it is b itself, which signed may change
\* before the right operand reads it.
CallSignExtend ==
    /\ call = NoCall
    /\ call' = IF extend_error(inp.b, inp.width) # None
               THEN [fn |-> "sign_extend", exc |-> extend_error(inp.b, inp.width)]
               ELSE LET l  == signed(sign_extend(inp.b, inp.width), IntWidth)
                        b1 == IF inp.width = Len(inp.b) THEN l.self ELSE inp.b
                    IN  [fn |-> "sign_extend", exc |-> None,
                         left |-> l.v, right |-> signed(b1, IntWidth).v]
    /\ UNCHANGED <<regs, mem, instr, hist, inp>>

NextExtend == CallZeroExtend \/ CallSignExtend

SpecExtend == InitExtend /\ [][NextExtend]_vars

\* C20: for a bitstring b of width >= 1 and w >= b.width,
\* b.zero_extend(w).unsigned == b.unsigned and b.sign_extend(w).signed ==
\* b.signed, the two's-complement value of b in its width; for w < b.width
\* both raise ValueError.
C20_ExtensionKeepsValue ==
    call.fn \in {"zero_extend", "sign_extend"} =>
        IF inp.width < Len(inp.b) THEN call.exc = "ValueError"
        ELSE /\ call.exc = None
             /\ call.left = call.right
             /\ call.fn = "zero_extend" => call.left = IntBits(ToNat(inp.b), IntWidth)
             /\ call.fn = "sign_extend" => call.left = IntBits(ToInt(inp.b), IntWidth)

\* ------------------------------------------------------------------------
\* bitstring.py: the object itself.  A bitstring object is a record of its
\* slots _width, _value and _mask, all Python ints; the operations below
\* compute on the ints as the code does.
\* ------------------------------------------------------------------------
\* x & y, x | y, x ^ y on Python ints (two's complement of unbounded width).
RECURSIVE IntBitwise(_, _, _)
IntBitwise(op, x, y) ==
    LET bit == IF op = "and" THEN (x % 2) * (y % 2)
               ELSE IF op = "or" THEN (IF (x % 2) + (y % 2) > 0 THEN 1 ELSE 0)
               ELSE ((x % 2) + (y % 2)) % 2
    IN  IF x \in {0, -1} /\ y \in {0, -1} THEN -bit
        ELSE bit + 2 * IntBitwise(op, x \div 2, y \div 2)

\* ~x
IntNot(x) == -x - 1

\* x // y for y # 0: the floor of the quotient.
FloorDiv(x, y) == IF y > 0 THEN x \div y ELSE (-x) \div (-y)

\* __init__ with a custom width: _width, _mask = (1 << width) - 1, and
\* _value &= _mask.
bitstring_init(val, width) ==
    [width |-> width, mask |-> Pow2(width) - 1,
     value |-> IntBitwise("and", val, Pow2(width) - 1)]

\* int(val, base=2) of a string, and reduce(lambda x, y: (x << 1) | y, val) of
\* a sequence of 0 and 1, both given with the first character or item first.
RECURSIVE digits_value(_)
digits_value(ds) ==
    IF Len(ds) = 1 THEN ds[1]
    ELSE IntBitwise("or", 2 * digits_value(SubSeq(ds, 1, Len(ds) - 1)), ds[Len(ds)])

\* bitstring(val, width) for a string or sequence val.
bitstring_init_digits(ds, width) == bitstring_init(digits_value(ds), width)

\* bitstring(val) for a string or sequence val: the width is len(val).
bitstring_of_digits(ds) == bitstring_init_digits(ds, Len(ds))

\* An operand of an operator: an int (v), a bitstring (b) or a string (ds);
\* the fields that kind does not name are not used.
IntOperand(k) == [kind |-> "int", v |-> k, b |-> bitstring_init(0, 0), ds |-> <<>>]

BitstringOperand(b) == [kind |-> "bitstring", v |-> 0, b |-> b, ds |-> <<>>]

StringOperand(ds) == [kind |-> "str", v |-> 0, b |-> bitstring_init(0, 0), ds |-> ds]

\* The int an arithmetic operator takes from its operand: other.unsigned,
\* other, bitstring(other).unsigned.
operand_value(o) ==
    IF o.kind = "bitstring" THEN o.b.value
    ELSE IF o.kind = "int" THEN o.v
    ELSE bitstring_of_digits(o.ds).value

\* What an operation leaves: the receiver (self), the object the expression
\* gives (result; the receiver where the code returns self or nothing, or
\* raises) and the exception raised.
Outcome(self, result, exc) == [self |-> self, result |-> result, exc |-> exc]

\* The receiver was changed to b and is what the expression gives.
Returns(b) == Outcome(b, b, None)

\* The in-place arithmetic without the final masking.
bitstring_iarith_unmasked(op, b, value) ==
    [b EXCEPT !.value = IF op = "add" THEN b.value + value
                        ELSE IF op = "sub" THEN b.value - value
                        ELSE IF op = "mul" THEN b.value * value
                        ELSE FloorDiv(b.value, value)]

\* __iadd__, __isub__, __imul__, __ifloordiv__ on the int of the operand:
\* self._value op= value; self._value &= self._mask.
bitstring_iarith(op, b, value) ==
    [b EXCEPT !.value =
        IntBitwise("and", IF op = "add" THEN b.value + value
                          ELSE IF op = "sub" THEN b.value - value
                          ELSE IF op = "mul" THEN b.value * value
                          ELSE FloorDiv(b.value, value),
                   b.mask)]

\* b op= other, and b op other (a copy of b, changed in place, is returned).
bitstring_arith(op, inplace, b, o) ==
    IF op = "floordiv" /\ operand_value(o) = 0 THEN Outcome(b, b, "ZeroDivisionError")
    ELSE IF inplace THEN Outcome(bitstring_iarith(op, b, operand_value(o)),
                              bitstring_iarith(op, b, operand_value(o)), None)
    ELSE Outcome(b, bitstring_iarith(op, b, operand_value(o)), None)

\* __lshift__ and __rshift__ with an int; a negative count makes Python's
\* shift raise ValueError.
bitstring_shift(op, b, n) ==
    IF n < 0 THEN Outcome(b, b, "ValueError")
    ELSE Outcome(b, bitstring_init(IF op = "lshift" THEN b.value * Pow2(n)
                                   ELSE b.value \div Pow2(n), b.width), None)

\* __and__, __xor__, __or__: the width is the receiver's for __and__ and for
\* an operand that is no bitstring, the larger of the two otherwise.
bitstring_logic(op, b, o) ==
    LET width == IF o.kind = "bitstring" /\ op # "and" THEN Max(b.width, o.b.width)
                 ELSE b.width
    IN  Outcome(b, bitstring_init(IntBitwise(op, b.value, operand_value(o)), width), None)

\* The in-place forms of the shifts and the logic operators:
\* self.set(self.__op__(other)).
bitstring_set(r) == IF r.exc = None THEN Outcome(r.result, r.result, None) ELSE r

\* __imod__ with a bitstring: the receiver becomes the high-order bits.
bitstring_imod_bits(b, other) ==
    [width |-> b.width + other.width, mask |-> Pow2(b.width + other.width) - 1,
     value |-> IntBitwise("or", b.value * Pow2(other.width), other.value)]

\* __imod__ with a bitstring, a string or an int (only 0 and 1 allowed).
bitstring_imod(b, o) ==
    IF o.kind = "bitstring" THEN Returns(bitstring_imod_bits(b, o.b))
    ELSE IF o.kind = "str"
        THEN Returns(bitstring_imod_bits(b, bitstring_of_digits(o.ds)))
    ELSE IF o.v \notin {0, 1} THEN Outcome(b, b, "ValueError")
    ELSE Returns(bitstring_imod_bits(b, bitstring_init(o.v, 1)))

\* b %= other, and b % other on a copy.
bitstring_mod(inplace, b, o) ==
    IF inplace \/ bitstring_imod(b, o).exc # None THEN bitstring_imod(b, o)
    ELSE Outcome(b, bitstring_imod(b, o).self, None)

\* invert(): self.set(bitstring(self._mask & ~self._value, self._width))
bitstring_invert(b) ==
    Returns(bitstring_init(IntBitwise("and", b.mask, IntNot(b.value)), b.width))

\* binary_string: the bits from the top one down.
binary_string(b) == Tuple([i \in 1..b.width |-> (b.value \div Pow2(b.width - i)) % 2])

\* reverse(): self.set(bitstring(reversed binary_string, self._width)); the
\* empty string of a bitstring of width 0 makes int() raise ValueError.
bitstring_reverse(b) ==
    IF b.width = 0 THEN Outcome(b, b, "ValueError")
    ELSE Returns(bitstring_init_digits(reverse(binary_string(b)), b.width))

\* b[key] = value for an int key and a value that is an int or a bitstring.
bitstring_setitem(b, key, o) ==
    IF key >= b.width THEN Outcome(b, b, "IndexError")
    ELSE IF o.kind = "bitstring" /\ o.b.width # 1 THEN Outcome(b, b, "ValueError")
    ELSE IF o.kind = "str" THEN Outcome(b, b, "TypeError")
    ELSE LET k == IF key < 0 THEN b.width + key ELSE key
         IN  IF k < 0 THEN Outcome(b, b, "ValueError")
             ELSE LET mask == IntBitwise("and", b.mask, IntNot(Pow2(k)))
                  IN  Returns([b EXCEPT !.value =
                                   IntBitwise("or", IntBitwise("and", b.value, mask),
                                              (operand_value(o) % 2) * Pow2(k))])

\* b[lo:hi] = value for 0 <= lo, hi; slice.indices clips both to the width.
\* An int here is non-negative and below 2^32, so bitstring(value).unsigned is
\* the int.
bitstring_setslice(b, lo, hi, o) ==
    LET start == IF lo > b.width THEN b.width ELSE lo
        stop  == IF hi > b.width THEN b.width ELSE hi
    IN  IF stop < start THEN Outcome(b, b, "ValueError")
        ELSE LET mask == (Pow2(stop - start) - 1) * Pow2(start)
             IN  Returns([b EXCEPT !.value =
                              IntBitwise("or", IntBitwise("and", b.value, IntNot(mask)),
                                         IntBitwise("and", operand_value(o) * Pow2(start),
                                                    mask))])

\* The value setter: self._value = val & self._mask
bitstring_set_value(b, val) ==
    Returns([b EXCEPT !.value = IntBitwise("and", val, b.mask)])

\* The width setter, for a width >= 0.
bitstring_set_width(b, val) ==
    Returns([width |-> val, mask |-> Pow2(val) - 1,
             value |-> IntBitwise("and", b.value, Pow2(val) - 1)])

\* ------------------------------------------------------------------------
\* Bitstring objects: a client constructs a bitstring of width up to MaxWidth
\* and applies the public operations to it, one after another; the variable
\* of the client is rebound to what an operator returns.
\* ------------------------------------------------------------------------
IntOperands == {IntOperand(k) : k \in {-1, 0, 3}}

\* 1'b1 and 2'b10
BitstringOperands == {BitstringOperand(bitstring_init(w, w)) : w \in 1..2}

StringOperands == {StringOperand(<<1, 0>>)}

Operands == IntOperands \cup BitstringOperands \cup StringOperands

InitBitstring ==
    /\ regs = MockCpuModelDelegate_regs
    /\ mem = <<>>
    /\ instr = NoInstruction
    /\ hist = <<>>
    /\ call = NoCall
    /\ \/ \E val \in -2..Pow2(MaxWidth), width \in 0..MaxWidth :
              inp = [fn |-> "bitstring", b |-> bitstring_init(val, width)]
       \/ \E n \in 1..MaxWidth : \E ds \in BitSeqs(n) :
              \/ inp = [fn |-> "bitstring", b |-> bitstring_of_digits(ds)]
              \/ \E width \in 0..MaxWidth :
                     inp = [fn |-> "bitstring", b |-> bitstring_init_digits(ds, width)]

\* The state after operation fn with the arguments args gave r: the client's
\* variable holds r.result.
Operated(fn, args, r) ==
    /\ inp' = [inp EXCEPT !.b = r.result]
    /\ call' = [fn |-> fn, args |-> args, self0 |-> inp.b, self |-> r.self,
                result |-> r.result, exc |-> r.exc]
    /\ UNCHANGED <<regs, mem, instr, hist>>

\* b + o, b - o, b * o, b // o and b += o, b -= o, b *= o, b //= o
Arithmetic ==
    \E op \in {"add", "sub", "mul", "floordiv"}, inplace \in BOOLEAN, o \in Operands :
        Operated(op, <<inplace, o>>, bitstring_arith(op, inplace, inp.b, o))

\* b << n, b >> n and b <<= n, b >>= n
Shifting ==
    \E op \in {"lshift", "rshift"}, inplace \in BOOLEAN, n \in {-1, 1, MaxWidth + 1} :
        Operated(op, <<inplace, IntOperand(n)>>,
                 IF inplace THEN bitstring_set(bitstring_shift(op, inp.b, n))
                 ELSE bitstring_shift(op, inp.b, n))

\* b & o, b | o, b ^ o and b &= o, b |= o, b ^= o
Logic ==
    \E op \in {"and", "or", "xor"}, inplace \in BOOLEAN, o \in Operands :
        Operated(op, <<inplace, o>>,
                 IF inplace THEN bitstring_set(bitstring_logic(op, inp.b, o))
                 ELSE bitstring_logic(op, inp.b, o))

\* b % o and b %= o, while the width stays within MaxWidth
Concatenation ==
    \E inplace \in BOOLEAN, o \in Operands :
        /\ inp.b.width + (IF o.kind = "bitstring" THEN o.b.width
                          ELSE IF o.kind = "str" THEN Len(o.ds) ELSE 1) <= MaxWidth
        /\ Operated("mod", <<inplace, o>>, bitstring_mod(inplace, inp.b, o))

\* b.invert()
Invert == Operated("invert", <<>>, bitstring_invert(inp.b))

\* b.reverse()
Reverse == Operated("reverse", <<>>, bitstring_reverse(inp.b))

\* b[key] = o
SetItem ==
    \E key \in {-MaxWidth - 1, -1, 0, MaxWidth}, o \in Operands :
        Operated("setitem", <<key, o>>, bitstring_setitem(inp.b, key, o))

\* b[lo:hi] = o
SetSlice ==
    \E lo \in 0..1, hi \in {0, 2, MaxWidth + 1},
       o \in {x \in Operands : x.kind = "int" => x.v > 0} :
        Operated("setslice", <<lo, hi, o>>, bitstring_setslice(inp.b, lo, hi, o))

\* b.value = val
SetValue ==
    \E val \in {-1, 5, Pow2(MaxWidth)} :
        Operated("value", <<val>>, bitstring_set_value(inp.b, val))

\* b.width = val
SetWidth ==
    \E val \in 0..MaxWidth :
        Operated("width", <<val>>, bitstring_set_width(inp.b, val))

NextBitstring ==
    \/ Arithmetic \/ Shifting \/ Logic \/ Concatenation \/ Invert \/ Reverse
    \/ SetItem \/ SetSlice \/ SetValue \/ SetWidth

SpecBitstring == InitBitstring /\ [][NextBitstring]_vars

\* 0 <= value < 2^width and mask = 2^width - 1
WellFormed(b) == 0 <= b.value /\ b.value < Pow2(b.width) /\ b.mask = Pow2(b.width) - 1

\* The mathematical result of an arithmetic operator or a shift.
Mathematical(op, x, y) ==
    IF op = "add" THEN x + y
    ELSE IF op = "sub" THEN x - y
    ELSE IF op = "mul" THEN x * y
    ELSE IF op = "floordiv" THEN FloorDiv(x, y)
    ELSE IF op = "lshift" THEN x * Pow2(y)
    ELSE x \div Pow2(y)

LeafFirst == {63519, 63551, 63583, 63711, 63775, 63807, 63567, 63569, 63537}

LeafSecond == {4096 * Rt + low : Rt \in {0, 1, 7, 15}, low \in {0, 5, 53, 2053, 4095}}

LeafCodes == {Halfwords(hw1, hw2) : hw1 \in LeafFirst, hw2 \in LeafSecond}

InitLeaf == Fresh(MockCpuModelDelegate_regs, <<>>)

NextLeaf == DecodeFirst(LeafCodes)

SpecLeaf == InitLeaf /\ [][NextLeaf]_vars

\* The candidates of the leaf the tree leads word to (none where a node has
\* no child for the word).
RECURSIVE LeafOf(_, _)
LeafOf(node, word) ==
    IF is_zero(node.mask) THEN node.children
    ELSE IF and(word, node.mask) \in DOMAIN node.children
        THEN LeafOf(node.children[and(word, node.mask)], word)
    ELSE <<>>

\* Candidate k of the leaf accepts the word: its check succeeds and its
\* handler does not raise DecodeError.
Accepts(children, word, k) ==
    check(children[k], word) /\ Decoder_decode(children[k], word, 0).exc # "DecodeError"

\* C22: at a leaf, decode returns what the first candidate in list order
\* whose check succeeds and whose handler does not raise DecodeError makes of
\* the word; DecodeError never reaches the caller; with no such candidate
\* decode raises UndefinedInstructionError.
C22_DecodeErrorTriesNext ==
    (hist # <<>> /\ Last.call = "decode" /\ Len(Last.data) = 4
        /\ LeafOf(tree32, bytes_to_le32(Last.data, 0)) # <<>>) =>
        LET word     == bytes_to_le32(Last.data, 0)
            children == LeafOf(tree32, word)
            accepted == {k \in 1..Len(children) : Accepts(children, word, k)}
        IN  /\ Last.exc # "DecodeError"
            /\ IF accepted = {} THEN Last.exc = "UndefinedInstructionError"
               ELSE LET k == CHOOSE k \in accepted : \A j \in accepted : k <= j
                        r == Decoder_decode(children[k], word, 0)
                    IN  /\ Last.exc = r.exc
                        /\ r.exc = None => Last.instr1 = r.i

\* ldr.w r1, [pc, #5] (f85f 1005): ldr_str_reg_t2 comes first in the leaf and
\* raises DecodeError, and the LoadLiteral decoder after it gives the
\* instruction.
C22_Witness ==
    /\ hist # <<>> /\ Last.call = "decode" /\ Last.data = Halfwords(63583, 4101)
    /\ LeafOf(tree32, bytes_to_le32(Last.data, 0))[2].handler = "ldr_str_reg_t2"
    /\ Decoder_decode(LeafOf(tree32, bytes_to_le32(Last.data, 0))[2],
                      bytes_to_le32(Last.data, 0), 0).exc = "DecodeError"
    /\ Last.exc = None
    /\ Last.instr1.class = "LoadLiteral" /\ Last.instr1.mnemonic = "ldr.w"
    /\ Last.instr1.t = 1 /\ Last.instr1.imm32 = IntBits(5, 32)

\* ------------------------------------------------------------------------
\* The tree against a linear scan: decode on the 16-bit words 0100 0111 ...
\* (bx, blx and their neighbours) and on the 32-bit load and store words.
\* ------------------------------------------------------------------------
\* 0x4700 .. 0x47ff
ScanCodes == {Halfword(hw) : hw \in 18176..18431} \cup LeafCodes

InitScan == Fresh(MockCpuModelDelegate_regs, <<>>)

NextScan == DecodeFirst(ScanCodes)

SpecScan == InitScan /\ [][NextScan]_vars

\* The decoders of one size in descending order of the number of bits set in
\* the mask, ties in registration order.
scan16 == sorted_by_weight(decoders16)

scan32 == sorted_by_weight(decoders32)

\* The linear scan: the first decoder of the list with (word & mask) == match
\* whose handler does not raise DecodeError, UndefinedInstructionError when
\* there is none.
LinearScan(data) ==
    IF Len(data) = 4
    THEN decode_leaf(scan32, bytes_to_le32(data, 0), 0, 1)
    ELSE decode_leaf(scan16, MaskTo(bytes_to_le16(data, 0), 32), 0, 1)

\* C23: traversing the built tree gives the outcome of the linear scan of the
\* decoders of the word's size in descending mask-popcount order: the same
\* instruction, and UndefinedInstructionError exactly when the scan finds no
\* decoder.
C23_TreeIsLinearScan ==
    (hist # <<>> /\ Last.call = "decode") =>
        LET r == LinearScan(Last.data)
        IN  /\ Last.exc = r.exc
            /\ r.exc = None => Last.instr1 = r.i

\* ------------------------------------------------------------------------
\* Instruction objects across execute: rsbs Rd, Rn, #0 and rsb{s}.w Rd, Rn,
\* #const decoded once and executed again and again.
\* ------------------------------------------------------------------------
\* rsb.w / rsbs.w r1, r0, #const with i = 0 and i = 1, and rsbs r1, r0
ReverseCodes ==
    {Halfwords(hw1, 4096 * imm3 + 256 + imm8) :
        hw1 \in {61888, 61904, 62912}, imm3 \in {0, 4, 7}, imm8 \in {5, 127, 255}}
    \cup {Halfword(16961)}

ReverseWords == {IntBits(0, 32), IntBits(6, 32), IntBits(-1, 32)}

InitReverse ==
    \E a \in ReverseWords :
        Fresh(SetRegisters(MockCpuModelDelegate_regs,
                           << <<0, a>>, <<CORE_REGISTER.pc, IntBits(32768, 32)>> >>),
              <<>>)

NextReverse == DecodeFirst(ReverseCodes) \/ Execute

SpecReverse == InitReverse /\ [][NextReverse]_vars

\* C24: execute leaves every attribute of the instruction as decode made it,
\* and executing the same instruction object again from the same CPU state
\* ends in the same CPU state.
C24_ExecuteKeepsInstruction ==
    (hist # <<>> /\ Last.call = "execute") =>
        LET again == execute(Cpu(Last.regs0, Last.mem0), Last.instr1)
        IN  /\ Last.instr1 = Last.instr0
            /\ again.c.regs = Last.regs1
            /\ again.c.mem = Last.mem1

\* ------------------------------------------------------------------------
\* bitstring.py: the signed property and the comparisons with an int, on
\* bitstring objects.  v is what the caller receives and self the receiver as
\* the call leaves it.
\* ------------------------------------------------------------------------
bitstring_signed(b) ==
    IF b.width < 2 THEN [v |-> 0, self |-> b]
    ELSE LET w1 == b.width - 1
             s  == IntBitwise("and", FloorDiv(b.value, Pow2(w1)), 1)
         IN  IF s # 0
             THEN LET inv == bitstring_invert(b).self
                  IN  [v |-> -IntBitwise("and", inv.value, Pow2(w1) - 1) - 1, self |-> inv]
             ELSE [v |-> IntBitwise("and", b.value, Pow2(w1) - 1), self |-> b]

\* __eq__ with an int
bitstring_eq(b, other) ==
    IF other < 0
    THEN LET r == bitstring_signed(b) IN [v |-> r.v = other, self |-> r.self]
    ELSE [v |-> b.value = other, self |-> b]

\* __lt__ with an int
bitstring_lt(b, other) ==
    IF other < 0
    THEN LET r == bitstring_signed(b) IN [v |-> r.v < other, self |-> r.self]
    ELSE [v |-> b.value < other, self |-> b]

\* ------------------------------------------------------------------------
\* Observations: a client constructs a bitstring of width up to MaxWidth and
\* reads b.signed, b == k and b < k of it, again and again.
\* ------------------------------------------------------------------------
ComparedInts == {-Pow2(MaxWidth - 1), -2, -1, 0, 1}

\* The state after the observation fn with the arguments args gave r.
Observed(fn, args, r) ==
    /\ inp' = [inp EXCEPT !.b = r.self]
    /\ call' = [fn |-> fn, args |-> args, self0 |-> inp.b, self |-> r.self,
                v |-> r.v, exc |-> None]
    /\ UNCHANGED <<regs, mem, instr, hist>>

ReadSigned == Observed("signed", <<>>, bitstring_signed(inp.b))

CompareEq == \E k \in ComparedInts : Observed("eq", <<k>>, bitstring_eq(inp.b, k))

CompareLt == \E k \in ComparedInts : Observed("lt", <<k>>, bitstring_lt(inp.b, k))

NextSigned == ReadSigned \/ CompareEq \/ CompareLt

SpecSigned == InitBitstring /\ [][NextSigned]_vars

\* C25: reading b.signed and comparing b with a negative int by == or < leave
\* the value and the width of b as they were, and a second read of b.signed
\* gives the number the first one gave.
C25_SignedIsPure ==
    (call # NoCall /\ (call.fn = "signed" \/ call.args[1] < 0)) =>
        /\ call.self = call.self0
        /\ call.fn = "signed" => bitstring_signed(call.self).v = call.v

\* ------------------------------------------------------------------------
\* Shifts: Shift_C, LSL_C, LSR_C, ASR_C, ROR_C and RRX_C on every bitstring
\* of width 1 to MaxWidth, with shift amounts up to past twice the width.
\* ------------------------------------------------------------------------
MaxShift == 2 * MaxWidth + 1

InitShift ==
    /\ regs = MockCpuModelDelegate_regs
    /\ mem = <<>>
    /\ instr = NoInstruction
    /\ hist = <<>>
    /\ call = NoCall
    /\ \E n \in 1..MaxWidth : \E x \in BitSeqs(n) : inp = [fn |-> "shift", x |-> x]

\* The state after fn(inp.x, ...) gave r.
Shifted(fn, type, amount, carry_in, r, exc) ==
    /\ call = NoCall
    /\ call' = [fn |-> fn, type |-> type, amount |-> amount, carry_in |-> carry_in,
                result |-> r.result, carry_out |-> r.carry_out, exc |-> exc]
    /\ UNCHANGED <<regs, mem, instr, hist, inp>>

CallShift_C ==
    \E type \in 0..5, amount \in 0..MaxShift, carry_in \in {bit0, bit1} :
        Shifted("Shift_C", type, amount, carry_in,
                Shift_C(inp.x, type, amount, carry_in),
                Shift_C(inp.x, type, amount, carry_in).exc)

CallLSL_C ==
    \E shift \in 1..MaxShift :
        Shifted("LSL_C", SRType.SRType_LSL, shift, bit0, LSL_C(inp.x, shift), None)

CallLSR_C ==
    \E shift \in 1..MaxShift :
        Shifted("LSR_C", SRType.SRType_LSR, shift, bit0, LSR_C(inp.x, shift), None)

CallASR_C ==
    \E shift \in 1..MaxShift :
        Shifted("ASR_C", SRType.SRType_ASR, shift, bit0, ASR_C(inp.x, shift), None)

CallROR_C ==
    \E shift \in 1..MaxShift :
        Shifted("ROR_C", SRType.SRType_ROR, shift, bit0, ROR_C(inp.x, shift), None)

CallRRX_C ==
    \E carry_in \in {bit0, bit1} :
        Shifted("RRX_C", SRType.SRType_RRX, 1, carry_in, RRX_C(inp.x, carry_in), None)

NextShift ==
    \/ CallShift_C
    \/ CallLSL_C
    \/ CallLSR_C
    \/ CallASR_C
    \/ CallROR_C
    \/ CallRRX_C

SpecShift == InitShift /\ [][NextShift]_vars

\* C26: Shift_C(value, type, amount, carry_in) returns (value, carry_in)
\* whenever amount = 0 or type is SRType_None.
C26_ShiftByNothing ==
    (call.fn = "Shift_C" /\ (call.amount = 0 \/ call.type = SRType.SRType_None)) =>
        /\ call.exc = None
        /\ call.result = inp.x
        /\ call.carry_out = call.carry_in

\* Bit i (from 1, the lowest) of x shifted by s places, by the arithmetic of
\* the shift: below the word zeros come in on the left shift, above it zeros
\* or the sign on the right shifts.
ShiftedBit(fn, x, s, cin, i) ==
    LET w == Len(x)
    IN  CASE fn = "LSL_C" -> IF i > s THEN x[i - s] ELSE 0
          [] fn = "LSR_C" -> IF i + s <= w THEN x[i + s] ELSE 0
          [] fn = "ASR_C" -> IF i + s <= w THEN x[i + s] ELSE x[w]
          [] fn = "ROR_C" -> x[((i - 1 + (s % w)) % w) + 1]
          [] fn = "RRX_C" -> IF i = w THEN cin[1] ELSE x[i + 1]

\* The last bit shifted out.
ShiftedOut(fn, x, s) ==
    LET w == Len(x)
    IN  CASE fn = "LSL_C" -> IF s <= w THEN x[w - s + 1] ELSE 0
          [] fn = "LSR_C" -> IF s <= w THEN x[s] ELSE 0
          [] fn = "ASR_C" -> IF s <= w THEN x[s] ELSE x[w]
          [] fn = "ROR_C" -> x[((w - 1 + (s % w)) % w) + 1]
          [] fn = "RRX_C" -> x[1]

\* C27: for a shift s >= 1, also s >= w, LSL_C, LSR_C and ASR_C give the
\* shifted value in the width w of x and as carry the last bit shifted out (0,
\* or the sign for ASR_C, once s exceeds w); ROR_C rotates by s mod w and its
\* carry is the top bit of the result; RRX_C puts carry_in above x[w-1:1] and
\* its carry is x[0].
C27_ShiftsWithCarry ==
    call.fn \in {"LSL_C", "LSR_C", "ASR_C", "ROR_C", "RRX_C"} =>
        /\ Len(call.result) = Len(inp.x)
        /\ \A i \in 1..Len(inp.x) :
               call.result[i] = ShiftedBit(call.fn, inp.x, call.amount, call.carry_in, i)
        /\ call.carry_out = <<ShiftedOut(call.fn, inp.x, call.amount)>>
        /\ call.fn = "ROR_C" => call.carry_out = <<call.result[Len(inp.x)]>>

\* ASR_C of a negative value by more than its width: the result is all ones
\* and the carry is the sign.
C27_Witness ==
    /\ call.fn = "ASR_C" /\ Len(inp.x) = MaxWidth /\ inp.x[MaxWidth] = 1 /\ inp.x[1] = 0
    /\ call.amount > MaxWidth
    /\ call.result = Tuple([i \in 1..MaxWidth |-> 1])
    /\ call.carry_out = bit1

\* ------------------------------------------------------------------------
\* decoder.py: parse_spec.  A spec string is a sequence of characters; the
\* result holds the elements O, I, field(ident, width) and fixed(ident, bits).
\* ------------------------------------------------------------------------
\* string.ascii_letters, string.digits and string.whitespace, as far as the
\* specs of the scenario below use them.
ascii_letters == {"Q", "S", "R", "d", "f", "o"}

digits == {"0", "1", "2", "3", "4", "5", "6", "7", "8", "9"}

whitespace == {" ", "\t"}

\* int(bitcount)
RECURSIVE int(_)
int(s) ==
    IF s = <<>> THEN 0
    ELSE 10 * int(SubSeq(s, 1, Len(s) - 1))
         + (CHOOSE k \in 0..9 : <<"0", "1", "2", "3", "4", "5", "6", "7", "8", "9">>[k + 1]
                                    = s[Len(s)])

\* bitstring(bits) of a string of binary digits, the first one the top bit.
bitstring_of_string(bits) ==
    Tuple([k \in 1..Len(bits) |-> IF bits[Len(bits) + 1 - k] = "1" THEN 1 ELSE 0])

\* result.append((ident, 1)) when ident is not empty, and ident = ''
flush_ident(st) ==
    IF st.ident # "" THEN [st EXCEPT !.result = Append(@, field(st.ident, 1)), !.ident = ""]
    ELSE st

\* result.append((ident, int(bitcount))), ident = '', bitcount = '', state = 0
append_field(st) ==
    [st EXCEPT !.result = Append(@, field(st.ident, int(st.bitcount))),
               !.ident = "", !.bitcount = <<>>, !.state = 0]

\* One turn of the while loop on the character c; back says that the turn
\* ended with i -= 1.
parse_spec_turn(st, c) ==
    LET error == [st EXCEPT !.exc = "ValueError"]
    IN  CASE st.state = 0 ->
                 IF c \in {"0", "1"}
                 THEN [flush_ident(st) EXCEPT !.result = Append(@, IF c = "1" THEN I ELSE O),
                                              !.expectingBitcount = FALSE]
                 ELSE IF c \in ascii_letters
                 THEN [flush_ident(st) EXCEPT !.ident = c, !.state = 1]
                 ELSE IF c = "(" /\ st.expectingBitcount THEN [st EXCEPT !.state = 2]
                 ELSE IF c \in whitespace THEN st
                 ELSE error
          [] st.state = 1 ->
                 IF c = "(" THEN [st EXCEPT !.state = 2]
                 ELSE IF c = "=" THEN [st EXCEPT !.bits = <<>>, !.state = 5]
                 ELSE IF c \notin ascii_letters \cup digits
                 THEN [st EXCEPT !.state = 0, !.back = TRUE, !.expectingBitcount = TRUE]
                 ELSE [st EXCEPT !.ident = @ \o c]
          [] st.state = 2 ->
                 IF c \in digits THEN [st EXCEPT !.bitcount = <<c>>, !.state = 3]
                 ELSE IF c = ")" THEN [st EXCEPT !.bitcount = <<"1">>, !.state = 0]
                 ELSE IF c \in whitespace THEN st
                 ELSE error
          [] st.state = 3 ->
                 IF c = ")" THEN append_field(st)
                 ELSE IF c \notin digits THEN [st EXCEPT !.state = 4]
                 ELSE [st EXCEPT !.bitcount = Append(@, c)]
          [] st.state = 4 ->
                 IF c = ")" THEN append_field(st)
                 ELSE IF c \in whitespace THEN st
                 ELSE error
          [] st.state = 5 ->
                 IF c \in {"0", "1"} THEN [st EXCEPT !.bits = Append(@, c)]
                 ELSE IF st.bits = <<>> THEN error \* bitstring('') : int('', 2)
                 ELSE [st EXCEPT !.result = Append(@, fixed(st.ident,
                                                            bitstring_of_string(st.bits))),
                                  !.bits = <<>>, !.ident = "", !.state = 0]

\* The while loop from character i (counted from 1) on.
RECURSIVE parse_spec_loop(_, _, _)
parse_spec_loop(spec, i, st) ==
    IF st.exc # None \/ i > Len(spec) THEN st
    ELSE LET t == parse_spec_turn(st, spec[i])
         IN  IF t.back THEN parse_spec_loop(spec, i, [t EXCEPT !.back = FALSE])
             ELSE parse_spec_loop(spec, i + 1, t)

\* parse_spec(spec): the loop and the lines after it.
parse_spec(spec) ==
    LET st == parse_spec_loop(spec, 1,
                  [result |-> <<>>, state |-> 0, ident |-> "", bitcount |-> <<>>,
                   bits |-> <<>>, expectingBitcount |-> FALSE, back |-> FALSE,
                   exc |-> None])
    IN  IF st.exc # None THEN [result |-> <<>>, exc |-> st.exc]
        ELSE IF st.ident = "" THEN [result |-> st.result, exc |-> None]
        ELSE IF st.bits # <<>>
        THEN [result |-> Append(st.result, fixed(st.ident, bitstring_of_string(st.bits))),
              exc |-> None]
        ELSE [result |-> Append(st.result,
                                field(st.ident, int(IF st.bitcount = <<>> THEN <<"1">>
                                                    ELSE st.bitcount))),
              exc |-> None]

\* ------------------------------------------------------------------------
\* Spec strings: one or two fields of the forms BIT, NAME, NAME(), NAME(n)
\* and NAME=bits, written with or without whitespace in every gap between
\* two tokens, before the first and after the last.
\* ------------------------------------------------------------------------
token(kind, chars) == [kind |-> kind, chars |-> chars]

FieldForms ==
    { <<token("bit", <<"1">>)>>,
      <<token("name", <<"S">>)>>,
      <<token("name", <<"Q">>), token("punct", <<"(">>), token("punct", <<")">>)>>,
      <<token("name", <<"R", "d">>), token("punct", <<"(">>), token("number", <<"1", "2">>),
        token("punct", <<")">>)>>,
      <<token("name", <<"f", "o", "o">>), token("punct", <<"=">>),
        token("bits", <<"1", "0">>)>> }

TokenLists == FieldForms \cup {a \o b : a \in FieldForms, b \in FieldForms}

\* Whitespace is needed between two tokens that would read as one without it.
Needed(a, b) == a.kind \in {"name", "number", "bits"} /\ b.kind \in {"bit", "name", "number", "bits"}

\* gaps[k] is the whitespace before token k, gaps[Len(tokens) + 1] the
\* whitespace after the last one.
RECURSIVE Join(_, _, _)
Join(tokens, gaps, k) ==
    IF k > Len(tokens) THEN gaps[k]
    ELSE gaps[k] \o tokens[k].chars \o Join(tokens, gaps, k + 1)

Gaps == {<<>>, <<" ">>, <<"\t", " ">>}

\* The ways to space the tokens: whitespace or none in one gap g of the
\* list, and only the needed whitespace elsewhere.
Least(tokens) ==
    [k \in 1..(Len(tokens) + 1) |->
        IF k > 1 /\ k <= Len(tokens) /\ Needed(tokens[k - 1], tokens[k]) THEN <<" ">>
        ELSE <<>>]

Spacings(tokens) ==
    UNION {{[Least(tokens) EXCEPT ![g] = w] :
                w \in {v \in Gaps : v # <<>> \/ Least(tokens)[g] = <<>>}} :
           g \in 1..(Len(tokens) + 1)}

InitParser ==
    /\ regs = MockCpuModelDelegate_regs
    /\ mem = <<>>
    /\ instr = NoInstruction
    /\ hist = <<>>
    /\ call = NoCall
    /\ \E tokens \in TokenLists : \E gaps \in Spacings(tokens) :
           inp = [fn |-> "parse_spec", tokens |-> tokens, spec |-> Join(tokens, gaps, 1)]

CallParseSpec ==
    /\ call = NoCall
    /\ call' = [fn |-> "parse_spec", result |-> parse_spec(inp.spec).result,
                exc |-> parse_spec(inp.spec).exc]
    /\ UNCHANGED <<regs, mem, instr, hist, inp>>

NextParser == CallParseSpec

SpecParser == InitParser /\ [][NextParser]_vars

\* C28: two spec strings that differ only in whitespace, with no identifier
\* or number split, parse to the same list: every spacing of a list of
\* tokens parses to what the spacing with the least whitespace parses to.
C28_WhitespaceInsensitive ==
    call.fn = "parse_spec" =>
        LET least == parse_spec(Join(inp.tokens, Least(inp.tokens), 1))
        IN  /\ call.exc = least.exc
            /\ call.result = least.result

\* ------------------------------------------------------------------------
\* Register views: cpu.r = RegistersInterface(cpu, 0, 15) and cpu.s =
\* RegistersInterface(cpu, 0x40, 0x5f), read and written at keys inside and
\* just outside their ranges.
\* ------------------------------------------------------------------------
Views == {[first |-> 0, last |-> 15], [first |-> 64, last |-> 95]}

ViewKeys == {0, 15, 16, 31, 32}

ViewWords == {IntBits(-4660, 32)}

InitViews == Fresh(MockCpuModelDelegate_regs, <<>>)

\* value = view[key]
ViewRead ==
    \E view \in Views, key \in ViewKeys :
        LET r == RegistersInterface_getitem(Cpu(regs, mem), view.first, view.last, key)
        IN  /\ call' = [fn |-> "getitem", first |-> view.first, last |-> view.last,
                        key |-> key, value |-> r.v, exc |-> r.exc, regs0 |-> regs]
            /\ UNCHANGED <<regs, mem, instr, hist, inp>>

\* view[key] = value
ViewWrite ==
    \E view \in Views, key \in ViewKeys, value \in ViewWords :
        LET c == RegistersInterface_setitem(Cpu(regs, mem), view.first, view.last, key, value)
        IN  /\ call' = [fn |-> "setitem", first |-> view.first, last |-> view.last,
                        key |-> key, value |-> value, exc |-> c.exc, regs0 |-> regs]
            /\ regs' = c.regs
            /\ UNCHANGED <<mem, instr, hist, inp>>

NextViews == ViewRead \/ ViewWrite

SpecViews == InitViews /\ [][NextViews]_vars

\* C29: for 0 <= k <= last - first, view[k] reads delegate register first + k
\* and view[k] = v writes that register; for k > last - first both raise
\* KeyError.
C29_ViewIndexing ==
    call.fn \in {"getitem", "setitem"} =>
        IF call.key > call.last - call.first
        THEN call.exc = "KeyError" /\ regs = call.regs0
        ELSE /\ call.exc = None
             /\ call.fn = "getitem" =>
                    regs = call.regs0 /\ call.value = regs[call.first + call.key]
             /\ call.fn = "setitem" =>
                    regs = [call.regs0 EXCEPT ![call.first + call.key] = call.value]

\* ------------------------------------------------------------------------
\* Buffers: ranges added to a MockCpuModelDelegate and written with
\* write_memory and write_memory_block, at their first and at their last
\* bytes.
\* ------------------------------------------------------------------------
\* write_memory_block(addr, data)
MockCpuModelDelegate_write_memory_block(m, addr, data) ==
    LET f == find_mem(m, addr)
    IN  IF f.mem = 0 THEN m
        ELSE [m EXCEPT ![f.mem].data = assign_slice(@, f.offset, Len(data), data)]

\* 0x20000000 and 0x20000010
BufferStarts == {536870912, 536870928}

BufferLengths == {2, 6}

BufferOffsets == {0, 1, 4, 5}

BufferBlocks == {<<1>>, <<1, 2, 3>>}

\* inp.stores counts the writes made.
InitBuffers ==
    /\ regs = MockCpuModelDelegate_regs
    /\ mem = <<>>
    /\ instr = NoInstruction
    /\ hist = <<>>
    /\ call = NoCall
    /\ inp = [fn |-> "buffers", stores |-> 0]

\* The state after the delegate call fn left the list m of ranges.
Buffered(fn, args, m, stores) ==
    /\ mem' = m
    /\ call' = [fn |-> fn, args |-> args, mem0 |-> mem]
    /\ inp' = [inp EXCEPT !.stores = @ + stores]
    /\ UNCHANGED <<regs, instr, hist>>

\* add_memory(start, length) of a range that starts where none does yet
AddMemory ==
    \E start \in BufferStarts, length \in BufferLengths :
        /\ \A k \in 1..Len(mem) : mem[k].start # start
        /\ Buffered("add_memory", <<start, length>>, add_memory(mem, start, length), 0)

\* write_memory(addr, 0xa4, size)
WriteBuffer ==
    \E start \in BufferStarts, offset \in BufferOffsets, nbits \in AccessSizes :
        /\ inp.stores < MaxStores
        /\ Buffered("write_memory", <<start + offset, nbits>>,
                    MockCpuModelDelegate_write_memory(mem, IntBits(start + offset, 32),
                                                      IntBits(164, 32), nbits).mem, 1)

\* write_memory_block(addr, data)
WriteBlock ==
    \E start \in BufferStarts, offset \in BufferOffsets, data \in BufferBlocks :
        /\ inp.stores < MaxStores
        /\ Buffered("write_memory_block", <<start + offset, Len(data)>>,
                    MockCpuModelDelegate_write_memory_block(mem, IntBits(start + offset, 32),
                                                            data), 1)

NextBuffers == AddMemory \/ WriteBuffer \/ WriteBlock

SpecBuffers == InitBuffers /\ [][NextBuffers]_vars

\* C30: after every sequence of add_memory, write_memory and
\* write_memory_block calls the buffer of every range holds exactly
\* end - start + 1 bytes.
C30_BufferKeepsLength ==
    \A k \in 1..Len(mem) : Len(mem[k].data) = mem[k].end - mem[k].start + 1

====
